---- MODULE Spec2Model ----
(***************************************************************************)
(* Model of the chess-helper line quiz: the PGN variation parser           *)
(* (utils/chess/pgn-parser), the tree index and the quiz session hook      *)
(* useLineQuizSession.                                                     *)
(*                                                                         *)
(* The move validator (chess.js) is external.  It is modelled by its move  *)
(* history: a SAN is legal iff it is in LegalSans, and the position (FEN)  *)
(* reached by a history is the set of moves each side has made, so that    *)
(* two move orders of the same moves transpose into the same position.     *)
(*                                                                         *)
(* A whitespace-joined line of SAN tokens ("e4 e5 Nf3") is represented by  *)
(* the sequence of its words; the empty sequence is the empty string.      *)
(*                                                                         *)
(* Every handler of the hook is one atomic action: React commits the       *)
(* state updates of a handler and runs the ref-mirroring effects before    *)
(* the next event is dispatched, so the mirrored refs (isAutoPlayingRef,   *)
(* isCompletedRef, ...) hold the value of the state they mirror whenever   *)
(* a handler starts.                                                       *)
(***************************************************************************)
EXTENDS Integers, Sequences, FiniteSets, TLC

(***************************************************************************)
(* Generic helpers for JS arrays, Maps and Sets.                           *)
(***************************************************************************)
Front(s) == IF Len(s) = 0 THEN <<>> ELSE SubSeq(s, 1, Len(s) - 1)

Range(s) == {s[i] : i \in 1..Len(s)}

RECURSIVE Dedup(_)
Dedup(s) ==
  IF Len(s) = 0 THEN <<>>
  ELSE LET d == Dedup(Front(s)) IN
       IF s[Len(s)] \in Range(d) THEN d ELSE Append(d, s[Len(s)])

MapHas(m, k) == k \in DOMAIN m

MapPut(m, k, v) == [x \in (DOMAIN m) \cup {k} |-> IF x = k THEN v ELSE m[x]]

MapDelete(m, k) == [x \in (DOMAIN m) \ {k} |-> m[x]]

EmptyMap == [x \in {} |-> 0]

Max(a, b) == IF a >= b THEN a ELSE b

Min(a, b) == IF a <= b THEN a ELSE b

IsPrefix(p, s) == Len(p) <= Len(s) /\ SubSeq(s, 1, Len(p)) = p

(***************************************************************************)
(* The external move validator.                                            *)
(***************************************************************************)
IllegalSan == "Zz9"

\* a legal move that occurs in no move text
OffBookSan == "h3"

LegalSans ==
  {"a", "b", "c", "e", "f", "x", "y", OffBookSan,
   "e4", "e5", "Nf3", "Nc6", "Bb5", "a6", "Ba4", "b5", "Nf6", "O-O",
   "Nxe4", "Re1", "Nd6", "Bb3"}

\* the move "a" written with a check mark: the validator plays it and reports
\* the move under its standard name
CheckMarkedSan == "a+"

\* moveResult.san: the standard name of the move the validator played
MoveResultSan(san) == IF san = CheckMarkedSan THEN "a" ELSE san

IsLegal(history, san) == MoveResultSan(san) \in LegalSans

Fen(history) == <<Len(history), {<<i % 2, history[i]>> : i \in 1..Len(history)}>>

START_FEN == Fen(<<>>)

(***************************************************************************)
(* Raw move text: the sequence of its lexemes.  A lexeme is a SAN with an  *)
(* optional trailing "!"/"?" glyph, a move number, a comment, a NAG, a     *)
(* result marker or a parenthesis.                                         *)
(***************************************************************************)
San(s) == [k |-> "san", s |-> s, g |-> FALSE]

Glyphed(s) == [k |-> "san", s |-> s, g |-> TRUE]

Num(s) == [k |-> "num", s |-> s, g |-> FALSE]

Open == [k |-> "paren", s |-> "(", g |-> FALSE]

Close == [k |-> "paren", s |-> ")", g |-> FALSE]

RESULT_TOKENS == {"1-0", "0-1", "1/2-1/2", "*"}

\* normalizeMoveText: comments, NAGs and move numbers become blanks
normalizeMoveText(moveText) ==
  SelectSeq(moveText, LAMBDA t : t.k \notin {"comment", "nag", "num"})

\* sanitizeToken: the trailing glyphs are dropped, the text stays
sanitizeToken(token) == token.s

tokenizeMoveText(moveText) ==
  LET normalized == normalizeMoveText(moveText)
      sanitized == [i \in 1..Len(normalized) |-> sanitizeToken(normalized[i])]
  IN  SelectSeq(sanitized, LAMBDA t : t # "" /\ t \notin RESULT_TOKENS)

(***************************************************************************)
(* parseMainlines: recursive descent; returns the index of the token it    *)
(* stopped at and the lines it finalized.  Indices are 1-based.            *)
(***************************************************************************)
\* a parser whose variations continue after the last played move
RECURSIVE parseMainlinesLoop_SeedWhole(_, _, _, _)
parseMainlinesLoop_SeedWhole(tokens, index, currentLine, lines) ==
  IF index > Len(tokens)
  THEN [index |-> index, lines |-> Append(lines, currentLine)]
  ELSE LET token == tokens[index] IN
       IF token = "("
       THEN LET variationSeed == currentLine
                r == parseMainlinesLoop_SeedWhole(tokens, index + 1, variationSeed, <<>>)
            IN  parseMainlinesLoop_SeedWhole(tokens, r.index + 1, currentLine, lines \o r.lines)
       ELSE IF token = ")"
       THEN [index |-> index, lines |-> Append(lines, currentLine)]
       ELSE parseMainlinesLoop_SeedWhole(tokens, index + 1, Append(currentLine, token), lines)

\* a parser that finalizes a line only at a ")"
RECURSIVE parseMainlinesLoop_DropAtEnd(_, _, _, _)
parseMainlinesLoop_DropAtEnd(tokens, index, currentLine, lines) ==
  IF index > Len(tokens)
  THEN [index |-> index, lines |-> lines]
  ELSE LET token == tokens[index] IN
       IF token = "("
       THEN LET variationSeed == Front(currentLine)
                r == parseMainlinesLoop_DropAtEnd(tokens, index + 1, variationSeed, <<>>)
            IN  parseMainlinesLoop_DropAtEnd(tokens, r.index + 1, currentLine, lines \o r.lines)
       ELSE IF token = ")"
       THEN [index |-> index, lines |-> Append(lines, currentLine)]
       ELSE parseMainlinesLoop_DropAtEnd(tokens, index + 1, Append(currentLine, token), lines)

RECURSIVE parseMainlinesLoop(_, _, _, _)
parseMainlinesLoop(tokens, index, currentLine, lines) ==
  IF index > Len(tokens)
  THEN [index |-> index, lines |-> Append(lines, currentLine)]
  ELSE LET token == tokens[index] IN
       IF token = "("
       THEN LET variationSeed == Front(currentLine)
                r == parseMainlinesLoop(tokens, index + 1, variationSeed, <<>>)
            IN  parseMainlinesLoop(tokens, r.index + 1, currentLine, lines \o r.lines)
       ELSE IF token = ")"
       THEN [index |-> index, lines |-> Append(lines, currentLine)]
       ELSE parseMainlinesLoop(tokens, index + 1, Append(currentLine, token), lines)

parseMainlines(tokens, startIndex, seedLine) ==
  parseMainlinesLoop(tokens, startIndex, seedLine, <<>>)

\* a parser that returns every line it finalized, the empty ones too
moveTextToMainlines_KeepEmpty(moveText) ==
  LET tokens == tokenizeMoveText(moveText)
      parsedLines == parseMainlines(tokens, 1, <<>>).lines
  IN  Dedup(parsedLines)

\* a parser that returns a line as often as the text repeats it
moveTextToMainlines_NoDedup(moveText) ==
  LET tokens == tokenizeMoveText(moveText) IN
  IF Len(tokens) = 0 THEN <<>>
  ELSE LET parsedLines == parseMainlines(tokens, 1, <<>>).lines
       IN  SelectSeq(parsedLines, LAMBDA line : line # <<>>)

moveTextToMainlines(moveText) ==
  LET tokens == tokenizeMoveText(moveText) IN
  IF Len(tokens) = 0 THEN <<>>
  ELSE LET parsedLines == parseMainlines(tokens, 1, <<>>).lines
       IN  Dedup(SelectSeq(parsedLines, LAMBDA line : line # <<>>))

RECURSIVE CountBeforeParen(_, _)
CountBeforeParen(tokens, i) ==
  IF i > Len(tokens) THEN 0
  ELSE IF tokens[i] = "(" THEN 0
  ELSE IF tokens[i] = ")" THEN CountBeforeParen(tokens, i + 1)
  ELSE 1 + CountBeforeParen(tokens, i + 1)

\* the count without the step back from the branching move
findNumMovesToFirstBranch_Whole(moveText) ==
  CountBeforeParen(tokenizeMoveText(moveText), 1)

findNumMovesToFirstBranch(moveText) ==
  LET plyCount == CountBeforeParen(tokenizeMoveText(moveText), 1)
  IN  Max(0, plyCount - 1)

(***************************************************************************)
(* mainlinesToMoveTree.  The tree is the sequence of its non-root nodes in *)
(* creation order; a node names its parent by index, 0 being the root.     *)
(***************************************************************************)
ChildrenOf(tree, p) ==
  SelectSeq([i \in 1..Len(tree) |-> i], LAMBDA i : tree[i].parent = p)

\* a tree builder that gives every move of every line a node of its own
RECURSIVE AddLineToTree_NoMerge(_, _, _, _, _, _)
AddLineToTree_NoMerge(tree, moves, i, currentNode, moveNum, isWhite) ==
  IF i > Len(moves) THEN tree
  ELSE LET played == [k \in 1..i |-> MoveResultSan(moves[k])]
           san == played[i]
           before == SubSeq(played, 1, i - 1)
       IN
       IF ~IsLegal(before, moves[i]) THEN tree
       ELSE LET children == ChildrenOf(tree, currentNode)
                matching == <<>>
                nextMoveNum == IF isWhite THEN moveNum ELSE moveNum + 1
            IN
            IF Len(matching) > 0
            THEN AddLineToTree_NoMerge(tree, moves, i + 1, matching[1], nextMoveNum, ~isWhite)
            ELSE LET nextNode == [move |-> san, moveNum |-> moveNum, isWhite |-> isWhite,
                                  fen |-> Fen(played), parent |-> currentNode]
                 IN  AddLineToTree_NoMerge(Append(tree, nextNode), moves, i + 1, Len(tree) + 1,
                     nextMoveNum, ~isWhite)

RECURSIVE AddLineToTree(_, _, _, _, _, _)
AddLineToTree(tree, moves, i, currentNode, moveNum, isWhite) ==
  IF i > Len(moves) THEN tree
  ELSE LET played == [k \in 1..i |-> MoveResultSan(moves[k])]
           san == played[i]
           before == SubSeq(played, 1, i - 1)
       IN
       IF ~IsLegal(before, moves[i]) THEN tree
       ELSE LET children == ChildrenOf(tree, currentNode)
                matching == SelectSeq(children, LAMBDA c : tree[c].move = san)
                nextMoveNum == IF isWhite THEN moveNum ELSE moveNum + 1
            IN
            IF Len(matching) > 0
            THEN AddLineToTree(tree, moves, i + 1, matching[1], nextMoveNum, ~isWhite)
            ELSE LET nextNode == [move |-> san, moveNum |-> moveNum, isWhite |-> isWhite,
                                  fen |-> Fen(played), parent |-> currentNode]
                 IN  AddLineToTree(Append(tree, nextNode), moves, i + 1, Len(tree) + 1,
                     nextMoveNum, ~isWhite)

RECURSIVE mainlinesToMoveTreeFrom(_, _, _)
mainlinesToMoveTreeFrom(tree, mainlines, n) ==
  IF n > Len(mainlines) THEN tree
  ELSE mainlinesToMoveTreeFrom(AddLineToTree(tree, mainlines[n], 1, 0, 1, TRUE),
                               mainlines, n + 1)

mainlinesToMoveTree(mainlines) == mainlinesToMoveTreeFrom(<<>>, mainlines, 1)

hashMoveNode(moveNode) ==
  <<moveNode.fen, moveNode.moveNum, moveNode.move, moveNode.isWhite>>

(***************************************************************************)
(* buildTreeIndex.                                                         *)
(***************************************************************************)
getPositionKey(nextMoveIndex, playedMoves) == <<nextMoveIndex, playedMoves>>

toPgnMoveOccurrenceKey(positionKey, san) == <<positionKey, san>>

EmptyIndex ==
  [leafPlansByHash |-> EmptyMap, leafHashesInOrder |-> <<>>,
   positionMoveLeafIndex |-> EmptyMap, occurrenceNodeHashByKey |-> EmptyMap]

\* the loop over the plies of a newly registered leaf (moveIndex is 0-based)
RECURSIVE IndexLeafMoves(_, _, _)
IndexLeafMoves(index, plan, moveIndex) ==
  IF moveIndex >= Len(plan.sanPath) THEN index
  ELSE LET positionKey == getPositionKey(moveIndex, SubSeq(plan.sanPath, 1, moveIndex))
           moveSan == plan.sanPath[moveIndex + 1]
           nodeHash == plan.nodeHashPath[moveIndex + 1]
           pmli == index.positionMoveLeafIndex
           moveToLeafHashes == IF MapHas(pmli, positionKey) THEN pmli[positionKey] ELSE EmptyMap
           leafHashesForMove == IF MapHas(moveToLeafHashes, moveSan)
                                THEN moveToLeafHashes[moveSan] ELSE <<>>
           pushed == IF plan.leafHash \in Range(leafHashesForMove)
                     THEN leafHashesForMove ELSE Append(leafHashesForMove, plan.leafHash)
           occurrenceKey == toPgnMoveOccurrenceKey(positionKey, moveSan)
           occ == index.occurrenceNodeHashByKey
       IN  IndexLeafMoves(
             [index EXCEPT
                !.positionMoveLeafIndex =
                   MapPut(pmli, positionKey, MapPut(moveToLeafHashes, moveSan, pushed)),
                !.occurrenceNodeHashByKey =
                   IF MapHas(occ, occurrenceKey) THEN occ ELSE MapPut(occ, occurrenceKey, nodeHash)],
             plan, moveIndex + 1)

RECURSIVE walk(_, _, _, _, _)
RECURSIVE walkChildren(_, _, _, _, _, _)
walk(tree, node, sanPath, nodeHashPath, index) ==
  LET children == ChildrenOf(tree, node) IN
  IF Len(children) = 0
  THEN IF Len(nodeHashPath) = 0 THEN index
       ELSE LET leafHash == nodeHashPath[Len(nodeHashPath)] IN
            IF MapHas(index.leafPlansByHash, leafHash) THEN index
            ELSE LET plan == [leafHash |-> leafHash, sanPath |-> sanPath,
                              nodeHashPath |-> nodeHashPath]
                     registered ==
                       [index EXCEPT
                          !.leafPlansByHash = MapPut(index.leafPlansByHash, leafHash, plan),
                          !.leafHashesInOrder = Append(index.leafHashesInOrder, leafHash)]
                 IN  IndexLeafMoves(registered, plan, 0)
  ELSE walkChildren(tree, children, 1, sanPath, nodeHashPath, index)

\* a walk that visits the children of a node from the last to the first
RECURSIVE walkChildren_LastFirst(_, _, _, _, _, _)
walkChildren_LastFirst(tree, children, n, sanPath, nodeHashPath, index) ==
  IF n > Len(children) THEN index
  ELSE LET child == tree[children[Len(children) + 1 - n]]
           childHash == hashMoveNode(child)
           walked == walk(tree, children[Len(children) + 1 - n], Append(sanPath, child.move),
                          Append(nodeHashPath, childHash), index)
       IN  walkChildren_LastFirst(tree, children, n + 1, sanPath, nodeHashPath, walked)

walkChildren(tree, children, n, sanPath, nodeHashPath, index) ==
  IF n > Len(children) THEN index
  ELSE LET child == tree[children[n]]
           childHash == hashMoveNode(child)
           walked == walk(tree, children[n], Append(sanPath, child.move),
                          Append(nodeHashPath, childHash), index)
       IN  walkChildren(tree, children, n + 1, sanPath, nodeHashPath, walked)

buildTreeIndex(lineMovesByIndex) ==
  LET root == mainlinesToMoveTree(lineMovesByIndex)
  IN  walk(root, 0, <<>>, <<>>, EmptyIndex)

(***************************************************************************)
(* The move texts a session is run on.                                     *)
(***************************************************************************)
\* ""
EmptyText == <<>>

\* "a b ( e ) c"
SmallText == <<San("a"), San("b"), Open, San("e"), Close, San("c")>>

\* "a b ( e ) ( f )"
ThreeWayText == <<San("a"), San("b"), Open, San("e"), Close, Open, San("f"), Close>>

\* "1. a b ( 1... e ) 2. c x ( 2... y )"
NestedText ==
  <<Num("1."), San("a"), San("b"), Open, Num("1..."), San("e"), Close,
    Num("2."), San("c"), San("x"), Open, Num("2..."), San("y"), Close>>

\* TUTORIAL_PGN
TutorialText ==
  <<Num("1."), San("e4"), San("e5"), Num("2."), San("Nf3"), San("Nc6"),
    Num("3."), San("Bb5"), San("a6"), Num("4."), San("Ba4"), San("b5"),
    Open, Num("4..."), San("Nf6"), Num("5."), San("O-O"), San("Nxe4"),
    Num("6."), San("Re1"), San("Nd6"), Close,
    Num("5."), San("Bb3"), San("Nf6"), Num("6."), San("O-O")>>

\* "1. a ( 1. c b 2. a x 3. y ) 1... b 2. c x": the variation reaches the
\* position after a b c x by another order of the same moves
TransposedText ==
  <<Num("1."), San("a"), Open, Num("1."), San("c"), San("b"), Num("2."), San("a"),
    San("x"), Num("3."), San("y"), Close, Num("1..."), San("b"), Num("2."), San("c"),
    San("x")>>

MoveTexts ==
  <<EmptyText, SmallText, ThreeWayText, NestedText, TutorialText, TransposedText>>

\* the studies of a drill: all but the transposing one
TextIds == 1..(Len(MoveTexts) - 1)

\* the studies the learner switches between in a full session
MainTextIds == {1, 2}

\* the useMemo derivations of the hook
treeIndexOfText(text) == buildTreeIndex(moveTextToMainlines(MoveTexts[text]))

skipPliesOfText(text) == findNumMovesToFirstBranch(MoveTexts[text])

(***************************************************************************)
(* Null values of the hook.                                                *)
(***************************************************************************)
NoLeaf == <<>>

NoSan == ""

NoKey == <<>>

NoMessage == "null"

AlreadyChosenMessage ==
  "That move was already chosen at this branch. Pick a different PGN move."

\* persisted progress of a study handed to the hook as initialVisitedNodeHashes:
\* nothing, the nodes of its first line, or the nodes of all its lines
InitialVisitedChoices(index) ==
  LET plans == index.leafPlansByHash
      order == index.leafHashesInOrder
  IN  {{},
       IF Len(order) = 0 THEN {} ELSE Range(plans[order[1]].nodeHashPath),
       UNION {Range(plans[h].nodeHashPath) : h \in DOMAIN plans}}

\* the drops tried: every move of the study, an off-book move, an illegal one
DropInputs(index) ==
  UNION {Range(index.leafPlansByHash[h].sanPath) : h \in DOMAIN index.leafPlansByHash}
    \cup {OffBookSan, IllegalSan}

VARIABLES
  \* props of the hook
  moveText, isPlayingWhite, isSkipping, initialVisitedNodeHashes, isPaused,
  randomizeOpponentBranchMoves, manualLineAdvance,
  \* React state
  currFen, isAutoPlaying, isCompleted, visitedNodeHashes, isTransitioningBetweenLines,
  isAwaitingLineAdvance, remainingLineCount, nextExpectedMoveSan, nextMovePositionKey,
  recentAutoMoveOccurrenceKey, moveRejectionMessage,
  \* refs
  chess, currentTargetLeafHash, currentMoveIdx, furthestMoveIdx, playedSanHistory,
  scheduledTimeoutIds, autoMoveHighlightTimeoutId, visitedLeafHashes,
  branchCycleChoices, pendingNextLeafHash, treeIndex, skipPlies,
  \* the browser's pending timers
  timeouts,
  \* observations of the last handler: the value onPieceDrop returned, and
  \* whether advanceToNextLineOrComplete ran for a fresh or a visited leaf
  dropResult, lastAdvance,
  \* how many times the last handler invoked the onSessionComplete callback
  onSessionCompleteCalls,
  \* the auto-play chain of the last startLeaf: "running" while one of its
  \* timers is pending, "finished" in the state the handler that ended it
  \* leaves (startLeaf itself when it had no ply to play), "none" otherwise
  leafChain,
  \* the parser run on its own: the move text or the list of lines given, what
  \* moveTextToMainlines, mainlinesToMoveTree and buildTreeIndex returned for
  \* it, and how far the run has got
  pgnSource, pgnMoveText, pgnMainlines, pgnMoveTree, pgnTreeIndex, pgnStage,
  \* history: per branching position, the moves onPieceDrop accepted there since
  \* the position's cycle last started (all options taken, restart or rebuild)
  acceptedInCycle

props == <<moveText, isPlayingWhite, isSkipping, initialVisitedNodeHashes, isPaused,
           randomizeOpponentBranchMoves, manualLineAdvance>>

reactState == <<currFen, isAutoPlaying, isCompleted, visitedNodeHashes,
                isTransitioningBetweenLines, isAwaitingLineAdvance, remainingLineCount,
                nextExpectedMoveSan, nextMovePositionKey, recentAutoMoveOccurrenceKey,
                moveRejectionMessage>>

progress == <<chess, currentTargetLeafHash, currentMoveIdx, furthestMoveIdx,
              playedSanHistory, visitedLeafHashes, visitedNodeHashes, branchCycleChoices>>

refs == <<chess, currentTargetLeafHash, currentMoveIdx, furthestMoveIdx, playedSanHistory,
          scheduledTimeoutIds, autoMoveHighlightTimeoutId, visitedLeafHashes,
          branchCycleChoices, pendingNextLeafHash, treeIndex, skipPlies>>

session == <<props, reactState, refs, timeouts>>

pgnVars == <<pgnSource, pgnMoveText, pgnMainlines, pgnMoveTree, pgnTreeIndex, pgnStage>>

vars == <<session, dropResult, lastAdvance, onSessionCompleteCalls, leafChain,
          acceptedInCycle, pgnVars>>

\* the whole state as one record, threaded through the handlers
Cur ==
  [moveText |-> moveText, isPlayingWhite |-> isPlayingWhite, isSkipping |-> isSkipping,
   initialVisitedNodeHashes |-> initialVisitedNodeHashes, isPaused |-> isPaused,
   randomizeOpponentBranchMoves |-> randomizeOpponentBranchMoves,
   manualLineAdvance |-> manualLineAdvance,
   currFen |-> currFen, isAutoPlaying |-> isAutoPlaying, isCompleted |-> isCompleted,
   visitedNodeHashes |-> visitedNodeHashes,
   isTransitioningBetweenLines |-> isTransitioningBetweenLines,
   isAwaitingLineAdvance |-> isAwaitingLineAdvance,
   remainingLineCount |-> remainingLineCount, nextExpectedMoveSan |-> nextExpectedMoveSan,
   nextMovePositionKey |-> nextMovePositionKey,
   recentAutoMoveOccurrenceKey |-> recentAutoMoveOccurrenceKey,
   moveRejectionMessage |-> moveRejectionMessage,
   chess |-> chess, currentTargetLeafHash |-> currentTargetLeafHash,
   currentMoveIdx |-> currentMoveIdx, furthestMoveIdx |-> furthestMoveIdx,
   playedSanHistory |-> playedSanHistory, scheduledTimeoutIds |-> scheduledTimeoutIds,
   autoMoveHighlightTimeoutId |-> autoMoveHighlightTimeoutId,
   visitedLeafHashes |-> visitedLeafHashes, branchCycleChoices |-> branchCycleChoices,
   pendingNextLeafHash |-> pendingNextLeafHash, treeIndex |-> treeIndex,
   skipPlies |-> skipPlies, timeouts |-> timeouts,
   dropResult |-> "none", lastAdvance |-> "none", onSessionCompleteCalls |-> 0,
   leafChain |-> IF leafChain = "running" THEN "running" ELSE "none",
   acceptedInCycle |-> acceptedInCycle]

Commit(s) ==
  /\ moveText' = s.moveText
  /\ isPlayingWhite' = s.isPlayingWhite
  /\ isSkipping' = s.isSkipping
  /\ initialVisitedNodeHashes' = s.initialVisitedNodeHashes
  /\ isPaused' = s.isPaused
  /\ randomizeOpponentBranchMoves' = s.randomizeOpponentBranchMoves
  /\ manualLineAdvance' = s.manualLineAdvance
  /\ currFen' = s.currFen
  /\ isAutoPlaying' = s.isAutoPlaying
  /\ isCompleted' = s.isCompleted
  /\ visitedNodeHashes' = s.visitedNodeHashes
  /\ isTransitioningBetweenLines' = s.isTransitioningBetweenLines
  /\ isAwaitingLineAdvance' = s.isAwaitingLineAdvance
  /\ remainingLineCount' = s.remainingLineCount
  /\ nextExpectedMoveSan' = s.nextExpectedMoveSan
  /\ nextMovePositionKey' = s.nextMovePositionKey
  /\ recentAutoMoveOccurrenceKey' = s.recentAutoMoveOccurrenceKey
  /\ moveRejectionMessage' = s.moveRejectionMessage
  /\ chess' = s.chess
  /\ currentTargetLeafHash' = s.currentTargetLeafHash
  /\ currentMoveIdx' = s.currentMoveIdx
  /\ furthestMoveIdx' = s.furthestMoveIdx
  /\ playedSanHistory' = s.playedSanHistory
  /\ scheduledTimeoutIds' = s.scheduledTimeoutIds
  /\ autoMoveHighlightTimeoutId' = s.autoMoveHighlightTimeoutId
  /\ visitedLeafHashes' = s.visitedLeafHashes
  /\ branchCycleChoices' = s.branchCycleChoices
  /\ pendingNextLeafHash' = s.pendingNextLeafHash
  /\ treeIndex' = s.treeIndex
  /\ skipPlies' = s.skipPlies
  /\ timeouts' = s.timeouts
  /\ dropResult' = s.dropResult
  /\ lastAdvance' = s.lastAdvance
  /\ onSessionCompleteCalls' = s.onSessionCompleteCalls
  /\ leafChain' = s.leafChain
  /\ acceptedInCycle' = s.acceptedInCycle
  /\ UNCHANGED pgnVars

\* Body applied to the value of an expression, which is evaluated once
With(value, Body(_)) == CHOOSE result \in {Body(v) : v \in {value}} : TRUE

\* a handler has run: its result becomes the next state
Do(result) == \E s \in {result} : Commit(s)

treeIndexOf(s) == s.treeIndex

skipPliesOf(s) == s.skipPlies

(***************************************************************************)
(* Timers.  window.setTimeout hands out an id no pending timer and no      *)
(* remembered id uses (the browser's ids only grow; the smallest free id   *)
(* stands for the next one).  A timer is marked superseded when a leaf is  *)
(* started, the session restarted or rebuilt while it is pending.          *)
(***************************************************************************)
UsedTimeoutIds(s) ==
  {t.id : t \in s.timeouts} \cup Range(s.scheduledTimeoutIds) \cup {s.autoMoveHighlightTimeoutId}

setTimeoutId(s) == CHOOSE n \in 1..(Cardinality(UsedTimeoutIds(s)) + 1) : n \notin UsedTimeoutIds(s)

clearTimeout(pending, id) == {t \in pending : t.id # id}

removeTimeoutId(timeoutIds, targetId) == SelectSeq(timeoutIds, LAMBDA id : id # targetId)

markSuperseded(s) ==
  [s EXCEPT !.timeouts = {[t EXCEPT !.superseded = TRUE] : t \in @}]

\* the ids are forgotten but the browser's timers are left pending
clearScheduledTimeouts_IdsOnly(s) ==
  [s EXCEPT !.scheduledTimeoutIds = <<>>]

clearScheduledTimeouts(s) ==
  [s EXCEPT !.timeouts = {t \in @ : t.id \notin Range(s.scheduledTimeoutIds)},
            !.scheduledTimeoutIds = <<>>]

clearAutoMoveHighlight(s) ==
  [s EXCEPT !.timeouts = IF s.autoMoveHighlightTimeoutId # 0
                         THEN clearTimeout(@, s.autoMoveHighlightTimeoutId) ELSE @,
            !.autoMoveHighlightTimeoutId = 0,
            !.recentAutoMoveOccurrenceKey = NoKey]

flashAutoMoveOccurrence(s0, positionKey, moveSan) ==
  With(clearAutoMoveHighlight(s0), LAMBDA s :
  With(setTimeoutId(s), LAMBDA id :
    [s EXCEPT !.recentAutoMoveOccurrenceKey = toPgnMoveOccurrenceKey(positionKey, moveSan),
              !.autoMoveHighlightTimeoutId = id,
              !.timeouts = @ \cup {[id |-> id, kind |-> "highlight", plies |-> 0,
                                     leaf |-> NoLeaf, superseded |-> FALSE]}]))

clearScheduledActions(s) ==
  With(clearScheduledTimeouts(s), LAMBDA cleared :
    [clearAutoMoveHighlight(cleared) EXCEPT
       !.isTransitioningBetweenLines = FALSE,
       !.isAwaitingLineAdvance = FALSE,
       !.pendingNextLeafHash = NoLeaf,
       !.isAutoPlaying = FALSE,
       !.leafChain = "none"])

scheduleAction(s0, kind, plies, leaf) ==
  With(s0, LAMBDA s :
  With(setTimeoutId(s), LAMBDA id :
    [s EXCEPT !.timeouts = @ \cup {[id |-> id, kind |-> kind, plies |-> plies,
                                     leaf |-> leaf, superseded |-> FALSE]},
              !.scheduledTimeoutIds = Append(@, id)]))

(***************************************************************************)
(* Queries of the session.                                                 *)
(***************************************************************************)
\* the turn taken from the ply just played instead of the next one
isUsersTurn_OfLastPly(s) ==
  LET lastMoveIsWhite == (s.currentMoveIdx % 2 = 0)
  IN  lastMoveIsWhite = s.isPlayingWhite

isUsersTurn(s) ==
  LET nextMoveIndex == s.currentMoveIdx + 1
      nextMoveIsWhite == (nextMoveIndex % 2 = 0)
  IN  nextMoveIsWhite = s.isPlayingWhite

HasTargetPlan(s) ==
  /\ s.currentTargetLeafHash # NoLeaf
  /\ MapHas(treeIndexOf(s).leafPlansByHash, s.currentTargetLeafHash)

getCurrentTargetPlan(s) == treeIndexOf(s).leafPlansByHash[s.currentTargetLeafHash]

\* targetPlan?.sanPath[i], NoSan standing for undefined
TargetSanAt(s, i) ==
  IF HasTargetPlan(s) /\ i >= 0 /\ i < Len(getCurrentTargetPlan(s).sanPath)
  THEN getCurrentTargetPlan(s).sanPath[i + 1] ELSE NoSan

isCurrentLineComplete(s) ==
  /\ HasTargetPlan(s)
  /\ s.currentMoveIdx >= 0
  /\ s.currentMoveIdx >= Len(getCurrentTargetPlan(s).sanPath) - 1

syncNextMoveState(s0, currentMoveIndexInLine) ==
  With(s0, LAMBDA s :
    LET nextMoveIndexInLine == currentMoveIndexInLine + 1 IN
    [s EXCEPT !.nextExpectedMoveSan = TargetSanAt(s, nextMoveIndexInLine),
              !.nextMovePositionKey = getPositionKey(nextMoveIndexInLine, s.chess)])

\* a search that never looks at the last leaf
getNextIncompleteLeafHash_SkipsLast(s) ==
  LET unvisited == SelectSeq(Front(treeIndexOf(s).leafHashesInOrder),
                             LAMBDA h : h \notin s.visitedLeafHashes)
  IN  IF Len(unvisited) > 0 THEN unvisited[1] ELSE NoLeaf

\* a search that returns the last unvisited leaf
getNextIncompleteLeafHash_Last(s) ==
  LET unvisited == SelectSeq(treeIndexOf(s).leafHashesInOrder,
                             LAMBDA h : h \notin s.visitedLeafHashes)
  IN  IF Len(unvisited) > 0 THEN unvisited[Len(unvisited)] ELSE NoLeaf

getNextIncompleteLeafHash(s) ==
  LET unvisited == SelectSeq(treeIndexOf(s).leafHashesInOrder,
                             LAMBDA h : h \notin s.visitedLeafHashes)
  IN  IF Len(unvisited) > 0 THEN unvisited[1] ELSE NoLeaf

\* a choice that ignores what was visited
chooseLeafHash_First(candidateLeafHashes, visited) ==
  IF Len(candidateLeafHashes) = 0 THEN NoLeaf ELSE candidateLeafHashes[1]

\* the last candidate, visited or not
chooseLeafHash_Last(candidateLeafHashes, visited) ==
  IF Len(candidateLeafHashes) = 0 THEN NoLeaf
  ELSE candidateLeafHashes[Len(candidateLeafHashes)]

chooseLeafHash(candidateLeafHashes, visited) ==
  IF Len(candidateLeafHashes) = 0 THEN NoLeaf
  ELSE LET unvisited == SelectSeq(candidateLeafHashes, LAMBDA h : h \notin visited)
       IN  IF Len(unvisited) > 0 THEN unvisited[1] ELSE candidateLeafHashes[1]

markVisitedNodeHash(s, nodeHash) ==
  IF nodeHash = NoLeaf THEN s
  ELSE [s EXCEPT !.visitedNodeHashes = @ \cup {nodeHash}]

\* positionMoveLeafIndex.get(positionKey), the empty map standing for undefined
MoveToLeafHashesAt(s, positionKey) ==
  IF MapHas(treeIndexOf(s).positionMoveLeafIndex, positionKey)
  THEN treeIndexOf(s).positionMoveLeafIndex[positionKey] ELSE EmptyMap

OccurrenceNodeHash(s, occurrenceKey) ==
  IF MapHas(treeIndexOf(s).occurrenceNodeHashByKey, occurrenceKey)
  THEN treeIndexOf(s).occurrenceNodeHashByKey[occurrenceKey] ELSE NoLeaf

\* playedSanHistory[i] = san; playedSanHistory = playedSanHistory.slice(0, i + 1)
RecordPlayed(played, i, san) ==
  [k \in 1..(i + 1) |-> IF k = i + 1 THEN san
                        ELSE IF k <= Len(played) THEN played[k] ELSE NoSan]

(***************************************************************************)
(* playExpectedNextMove.  The options are the (move, target leaf) pairs    *)
(* Math.random can select; without randomization there is exactly one.     *)
(***************************************************************************)
\* a choice among all recorded moves, visited or not
PlayOptions_AnyOption(s) ==
  LET nextMoveIndexInLine == s.currentMoveIdx + 1
      fallbackMove == TargetSanAt(s, nextMoveIndexInLine)
      positionKey == getPositionKey(nextMoveIndexInLine, s.chess)
      moveToLeafHashes == MoveToLeafHashesAt(s, positionKey)
      isComputerTurn == ~isUsersTurn(s)
      moveOptions == DOMAIN moveToLeafHashes
      moveOptionsWithIncompleteLeaves ==
        {m \in moveOptions :
           \E i \in 1..Len(moveToLeafHashes[m]) : moveToLeafHashes[m][i] \notin s.visitedLeafHashes}
      selectionPool == moveOptions
  IN  IF /\ s.randomizeOpponentBranchMoves
         /\ isComputerTurn
         /\ Cardinality(moveOptions) > 1
      THEN {[move |-> m, leaf |-> chooseLeafHash(moveToLeafHashes[m], s.visitedLeafHashes)] :
              m \in selectionPool}
      ELSE {[move |-> fallbackMove, leaf |-> s.currentTargetLeafHash]}

PlayOptions(s) ==
  LET nextMoveIndexInLine == s.currentMoveIdx + 1
      fallbackMove == TargetSanAt(s, nextMoveIndexInLine)
      positionKey == getPositionKey(nextMoveIndexInLine, s.chess)
      moveToLeafHashes == MoveToLeafHashesAt(s, positionKey)
      isComputerTurn == ~isUsersTurn(s)
      moveOptions == DOMAIN moveToLeafHashes
      moveOptionsWithIncompleteLeaves ==
        {m \in moveOptions :
           \E i \in 1..Len(moveToLeafHashes[m]) : moveToLeafHashes[m][i] \notin s.visitedLeafHashes}
      selectionPool == IF moveOptionsWithIncompleteLeaves # {}
                       THEN moveOptionsWithIncompleteLeaves ELSE moveOptions
  IN  IF /\ s.randomizeOpponentBranchMoves
         /\ isComputerTurn
         /\ Cardinality(moveOptions) > 1
      THEN {[move |-> m, leaf |-> chooseLeafHash(moveToLeafHashes[m], s.visitedLeafHashes)] :
              m \in selectionPool}
      ELSE {[move |-> fallbackMove, leaf |-> s.currentTargetLeafHash]}

\* returns the new state; the move was played iff the history grew
playExpectedNextMove(s0, option) ==
  With(s0, LAMBDA s :
    LET nextMoveIndexInLine == s.currentMoveIdx + 1
        fallbackMove == TargetSanAt(s, nextMoveIndexInLine)
        positionKey == getPositionKey(nextMoveIndexInLine, s.chess)
        selectedMove == option.move
        selectedLeafHash == option.leaf
        occurrenceKey == toPgnMoveOccurrenceKey(positionKey, selectedMove)
    IN  IF fallbackMove = NoSan THEN s
        ELSE IF ~IsLegal(s.chess, selectedMove) THEN s
        ELSE
          With([s EXCEPT !.chess = Append(@, selectedMove),
                         !.currentTargetLeafHash =
                            IF selectedLeafHash # NoLeaf THEN selectedLeafHash ELSE @],
               LAMBDA s1 :
          With(markVisitedNodeHash(s1, OccurrenceNodeHash(s1, occurrenceKey)), LAMBDA s2 :
          With(flashAutoMoveOccurrence(s2, positionKey, selectedMove), LAMBDA s3 :
          With([s3 EXCEPT !.playedSanHistory =
                             RecordPlayed(@, nextMoveIndexInLine, selectedMove),
                          !.currentMoveIdx = nextMoveIndexInLine],
               LAMBDA s4 :
          With(syncNextMoveState(s4, nextMoveIndexInLine), LAMBDA s5 :
            [s5 EXCEPT !.furthestMoveIdx = Max(@, nextMoveIndexInLine),
                       !.currFen = Fen(s5.chess)]))))))

(***************************************************************************)
(* Line advancement, the auto-play chain and the start of a leaf.          *)
(***************************************************************************)
\* an advance that schedules the transition even in manual mode
advanceToNextLineOrComplete_AlwaysTimer(s00) ==
  With(s00, LAMBDA s0 :
    LET completedLeafHash == s0.currentTargetLeafHash IN
    With([s0 EXCEPT !.visitedLeafHashes =
                       IF completedLeafHash # NoLeaf THEN @ \cup {completedLeafHash} ELSE @,
                    !.lastAdvance =
                       IF completedLeafHash \in s0.visitedLeafHashes
                       THEN "repeat" ELSE "first"],
         LAMBDA s :
      LET nextLeafHash == getNextIncompleteLeafHash(s)
          remaining == Len(treeIndexOf(s).leafHashesInOrder) - Cardinality(s.visitedLeafHashes)
      IN  IF nextLeafHash # NoLeaf
          THEN With([s EXCEPT !.remainingLineCount = Max(remaining, 0)], LAMBDA s1 :
                 IF FALSE
                 THEN [s1 EXCEPT !.pendingNextLeafHash = nextLeafHash,
                                 !.isTransitioningBetweenLines = TRUE,
                                 !.isAwaitingLineAdvance = TRUE,
                                 !.isAutoPlaying = FALSE]
                 ELSE scheduleAction([s1 EXCEPT !.isTransitioningBetweenLines = TRUE,
                                                !.isAutoPlaying = TRUE],
                                     "startLeaf", 0, nextLeafHash))
          ELSE [s EXCEPT !.isTransitioningBetweenLines = FALSE,
                         !.isAwaitingLineAdvance = FALSE,
                         !.pendingNextLeafHash = NoLeaf,
                         !.remainingLineCount = 0,
                         !.isAutoPlaying = FALSE,
                         !.isCompleted = TRUE,
                         !.onSessionCompleteCalls = @ + 1]))

\* an advance that completes the session without the callback
advanceToNextLineOrComplete_Silent(s00) ==
  With(s00, LAMBDA s0 :
    LET completedLeafHash == s0.currentTargetLeafHash IN
    With([s0 EXCEPT !.visitedLeafHashes =
                       IF completedLeafHash # NoLeaf THEN @ \cup {completedLeafHash} ELSE @,
                    !.lastAdvance =
                       IF completedLeafHash \in s0.visitedLeafHashes
                       THEN "repeat" ELSE "first"],
         LAMBDA s :
      LET nextLeafHash == getNextIncompleteLeafHash(s)
          remaining == Len(treeIndexOf(s).leafHashesInOrder) - Cardinality(s.visitedLeafHashes)
      IN  IF nextLeafHash # NoLeaf
          THEN With([s EXCEPT !.remainingLineCount = Max(remaining, 0)], LAMBDA s1 :
                 IF s.manualLineAdvance
                 THEN [s1 EXCEPT !.pendingNextLeafHash = nextLeafHash,
                                 !.isTransitioningBetweenLines = TRUE,
                                 !.isAwaitingLineAdvance = TRUE,
                                 !.isAutoPlaying = FALSE]
                 ELSE scheduleAction([s1 EXCEPT !.isTransitioningBetweenLines = TRUE,
                                                !.isAutoPlaying = TRUE],
                                     "startLeaf", 0, nextLeafHash))
          ELSE [s EXCEPT !.isTransitioningBetweenLines = FALSE,
                         !.isAwaitingLineAdvance = FALSE,
                         !.pendingNextLeafHash = NoLeaf,
                         !.remainingLineCount = 0,
                         !.isAutoPlaying = FALSE,
                         !.isCompleted = TRUE]))

\* an advance that leaves the count of remaining lines as it was
advanceToNextLineOrComplete_StaleCount(s00) ==
  With(s00, LAMBDA s0 :
    LET completedLeafHash == s0.currentTargetLeafHash IN
    With([s0 EXCEPT !.visitedLeafHashes =
                       IF completedLeafHash # NoLeaf THEN @ \cup {completedLeafHash} ELSE @,
                    !.lastAdvance =
                       IF completedLeafHash \in s0.visitedLeafHashes
                       THEN "repeat" ELSE "first"],
         LAMBDA s :
      LET nextLeafHash == getNextIncompleteLeafHash(s)
          remaining == Len(treeIndexOf(s).leafHashesInOrder) - Cardinality(s.visitedLeafHashes)
      IN  IF nextLeafHash # NoLeaf
          THEN With(s, LAMBDA s1 :
                 IF s.manualLineAdvance
                 THEN [s1 EXCEPT !.pendingNextLeafHash = nextLeafHash,
                                 !.isTransitioningBetweenLines = TRUE,
                                 !.isAwaitingLineAdvance = TRUE,
                                 !.isAutoPlaying = FALSE]
                 ELSE scheduleAction([s1 EXCEPT !.isTransitioningBetweenLines = TRUE,
                                                !.isAutoPlaying = TRUE],
                                     "startLeaf", 0, nextLeafHash))
          ELSE [s EXCEPT !.isTransitioningBetweenLines = FALSE,
                         !.isAwaitingLineAdvance = FALSE,
                         !.pendingNextLeafHash = NoLeaf,
                         !.remainingLineCount = 0,
                         !.isAutoPlaying = FALSE,
                         !.isCompleted = TRUE,
                         !.onSessionCompleteCalls = @ + 1]))

advanceToNextLineOrComplete(s00) ==
  With(s00, LAMBDA s0 :
    LET completedLeafHash == s0.currentTargetLeafHash IN
    With([s0 EXCEPT !.visitedLeafHashes =
                       IF completedLeafHash # NoLeaf THEN @ \cup {completedLeafHash} ELSE @,
                    !.lastAdvance =
                       IF completedLeafHash \in s0.visitedLeafHashes
                       THEN "repeat" ELSE "first"],
         LAMBDA s :
      LET nextLeafHash == getNextIncompleteLeafHash(s)
          remaining == Len(treeIndexOf(s).leafHashesInOrder) - Cardinality(s.visitedLeafHashes)
      IN  IF nextLeafHash # NoLeaf
          THEN With([s EXCEPT !.remainingLineCount = Max(remaining, 0)], LAMBDA s1 :
                 IF s.manualLineAdvance
                 THEN [s1 EXCEPT !.pendingNextLeafHash = nextLeafHash,
                                 !.isTransitioningBetweenLines = TRUE,
                                 !.isAwaitingLineAdvance = TRUE,
                                 !.isAutoPlaying = FALSE]
                 ELSE scheduleAction([s1 EXCEPT !.isTransitioningBetweenLines = TRUE,
                                                !.isAutoPlaying = TRUE],
                                     "startLeaf", 0, nextLeafHash))
          ELSE [s EXCEPT !.isTransitioningBetweenLines = FALSE,
                         !.isAwaitingLineAdvance = FALSE,
                         !.pendingNextLeafHash = NoLeaf,
                         !.remainingLineCount = 0,
                         !.isAutoPlaying = FALSE,
                         !.isCompleted = TRUE,
                         !.onSessionCompleteCalls = @ + 1]))

runAutoMoves(s0, pliesRemaining) ==
  With(s0, LAMBDA s :
    IF s.isPaused THEN [s EXCEPT !.isAutoPlaying = FALSE]
    ELSE IF pliesRemaining <= 0 THEN [s EXCEPT !.isAutoPlaying = FALSE]
    ELSE scheduleAction([s EXCEPT !.isAutoPlaying = TRUE], "autoMove", pliesRemaining, NoLeaf))

\* the callback runAutoMoves schedules
autoMoveCallback(s0, pliesRemaining, option) ==
  With(s0, LAMBDA s :
    LET ended == IF s.leafChain = "running" THEN "finished" ELSE "none" IN
    IF s.isPaused THEN [s EXCEPT !.isAutoPlaying = FALSE, !.leafChain = "none"]
    ELSE With(playExpectedNextMove(s, option), LAMBDA played :
           LET moved == Len(played.chess) > Len(s.chess) IN
           IF ~moved THEN [played EXCEPT !.isAutoPlaying = FALSE, !.leafChain = ended]
           ELSE IF isCurrentLineComplete(played)
           THEN [advanceToNextLineOrComplete([played EXCEPT !.isAutoPlaying = FALSE])
                   EXCEPT !.leafChain = ended]
           ELSE [runAutoMoves(played, pliesRemaining - 1)
                   EXCEPT !.leafChain = IF pliesRemaining - 1 <= 0 THEN ended ELSE @]))

\* a start that never adds the ply of the other side
startLeaf_NoExtraPly(s0, leafHash) ==
  With(clearScheduledActions(markSuperseded(s0)), LAMBDA s :
    IF ~MapHas(treeIndexOf(s).leafPlansByHash, leafHash) THEN s
    ELSE
      With(syncNextMoveState([s EXCEPT !.currentTargetLeafHash = leafHash,
                                       !.currentMoveIdx = -1,
                                       !.furthestMoveIdx = -1,
                                       !.playedSanHistory = <<>>,
                                       !.isCompleted = FALSE,
                                       !.isTransitioningBetweenLines = FALSE,
                                       !.moveRejectionMessage = NoMessage,
                                       !.chess = <<>>,
                                       !.currFen = Fen(<<>>)], -1),
           LAMBDA s2 :
        LET targetPlan == treeIndexOf(s).leafPlansByHash[leafHash]
            skipped == IF s2.isSkipping
                       THEN Min(skipPliesOf(s2), Len(targetPlan.sanPath)) ELSE 0
            nextMoveIndexAfterSkip == skipped
            usersTurnAfterSkip == ((nextMoveIndexAfterSkip % 2 = 0) = s2.isPlayingWhite)
            autoPlies == skipped
        IN  IF Len(targetPlan.sanPath) = 0 THEN advanceToNextLineOrComplete(s2)
            ELSE IF autoPlies > 0
            THEN [runAutoMoves(s2, autoPlies)
                    EXCEPT !.leafChain = IF s2.isPaused THEN "none" ELSE "running"]
            ELSE [s2 EXCEPT !.isAutoPlaying = FALSE, !.leafChain = "finished"]))

startLeaf(s0, leafHash) ==
  With(clearScheduledActions(markSuperseded(s0)), LAMBDA s :
    IF ~MapHas(treeIndexOf(s).leafPlansByHash, leafHash) THEN s
    ELSE
      With(syncNextMoveState([s EXCEPT !.currentTargetLeafHash = leafHash,
                                       !.currentMoveIdx = -1,
                                       !.furthestMoveIdx = -1,
                                       !.playedSanHistory = <<>>,
                                       !.isCompleted = FALSE,
                                       !.isTransitioningBetweenLines = FALSE,
                                       !.moveRejectionMessage = NoMessage,
                                       !.chess = <<>>,
                                       !.currFen = Fen(<<>>)], -1),
           LAMBDA s2 :
        LET targetPlan == treeIndexOf(s).leafPlansByHash[leafHash]
            skipped == IF s2.isSkipping
                       THEN Min(skipPliesOf(s2), Len(targetPlan.sanPath)) ELSE 0
            nextMoveIndexAfterSkip == skipped
            usersTurnAfterSkip == ((nextMoveIndexAfterSkip % 2 = 0) = s2.isPlayingWhite)
            autoPlies == IF nextMoveIndexAfterSkip < Len(targetPlan.sanPath) /\ ~usersTurnAfterSkip
                         THEN skipped + 1 ELSE skipped
        IN  IF Len(targetPlan.sanPath) = 0 THEN advanceToNextLineOrComplete(s2)
            ELSE IF autoPlies > 0
            THEN [runAutoMoves(s2, autoPlies)
                    EXCEPT !.leafChain = IF s2.isPaused THEN "none" ELSE "running"]
            ELSE [s2 EXCEPT !.isAutoPlaying = FALSE, !.leafChain = "finished"]))

continueToNextLine(s0) ==
  With(s0, LAMBDA s :
    LET nextLeafHash == s.pendingNextLeafHash IN
    IF nextLeafHash = NoLeaf THEN s
    ELSE startLeaf([s EXCEPT !.pendingNextLeafHash = NoLeaf,
                             !.isAwaitingLineAdvance = FALSE], nextLeafHash))

\* an empty tree reported as completed
resetToIdle_Completed(s) ==
  [s EXCEPT !.chess = <<>>,
            !.currentTargetLeafHash = NoLeaf,
            !.playedSanHistory = <<>>,
            !.visitedLeafHashes = {},
            !.visitedNodeHashes = {},
            !.branchCycleChoices = EmptyMap,
            !.acceptedInCycle = EmptyMap,
            !.pendingNextLeafHash = NoLeaf,
            !.currentMoveIdx = -1,
            !.furthestMoveIdx = -1,
            !.nextExpectedMoveSan = NoSan,
            !.nextMovePositionKey = getPositionKey(0, <<>>),
            !.isCompleted = TRUE,
            !.isTransitioningBetweenLines = FALSE,
            !.isAwaitingLineAdvance = FALSE,
            !.remainingLineCount = 0,
            !.moveRejectionMessage = NoMessage,
            !.currFen = Fen(<<>>)]

\* the state both restartSession and the rebuild effect leave on an empty tree
resetToIdle(s) ==
  [s EXCEPT !.chess = <<>>,
            !.currentTargetLeafHash = NoLeaf,
            !.playedSanHistory = <<>>,
            !.visitedLeafHashes = {},
            !.visitedNodeHashes = {},
            !.branchCycleChoices = EmptyMap,
            !.acceptedInCycle = EmptyMap,
            !.pendingNextLeafHash = NoLeaf,
            !.currentMoveIdx = -1,
            !.furthestMoveIdx = -1,
            !.nextExpectedMoveSan = NoSan,
            !.nextMovePositionKey = getPositionKey(0, <<>>),
            !.isCompleted = FALSE,
            !.isTransitioningBetweenLines = FALSE,
            !.isAwaitingLineAdvance = FALSE,
            !.remainingLineCount = 0,
            !.moveRejectionMessage = NoMessage,
            !.currFen = Fen(<<>>)]

\* a restart that keeps the visited leaves
restartSession_KeepsVisitedLeaves(s0) ==
  With(clearScheduledActions(markSuperseded(s0)), LAMBDA s :
    LET leafHashesInOrder == treeIndexOf(s).leafHashesInOrder IN
    IF Len(leafHashesInOrder) = 0 THEN resetToIdle(s)
    ELSE startLeaf([s EXCEPT !.visitedNodeHashes = {},
                             !.branchCycleChoices = EmptyMap,
                             !.acceptedInCycle = EmptyMap,
                             !.pendingNextLeafHash = NoLeaf,
                             !.isCompleted = FALSE,
                             !.isTransitioningBetweenLines = FALSE,
                             !.isAwaitingLineAdvance = FALSE,
                             !.moveRejectionMessage = NoMessage,
                             !.remainingLineCount = Len(leafHashesInOrder)],
                   leafHashesInOrder[1]))

\* a restart that resumes after the leaves of the supplied visited set
restartSession_FromSupplied(s0) ==
  With(clearScheduledActions(markSuperseded(s0)), LAMBDA s :
    LET leafHashesInOrder == treeIndexOf(s).leafHashesInOrder
        unvisited == SelectSeq(leafHashesInOrder,
                               LAMBDA h : h \notin s.initialVisitedNodeHashes)
    IN  IF Len(leafHashesInOrder) = 0 THEN resetToIdle(s)
        ELSE startLeaf([s EXCEPT !.visitedLeafHashes = {},
                                 !.visitedNodeHashes = {},
                                 !.branchCycleChoices = EmptyMap,
                                 !.acceptedInCycle = EmptyMap,
                                 !.pendingNextLeafHash = NoLeaf,
                                 !.isCompleted = FALSE,
                                 !.isTransitioningBetweenLines = FALSE,
                                 !.isAwaitingLineAdvance = FALSE,
                                 !.moveRejectionMessage = NoMessage,
                                 !.remainingLineCount = Len(leafHashesInOrder)],
                       IF Len(unvisited) > 0 THEN unvisited[1] ELSE leafHashesInOrder[1]))

restartSession(s0) ==
  With(clearScheduledActions(markSuperseded(s0)), LAMBDA s :
    LET leafHashesInOrder == treeIndexOf(s).leafHashesInOrder IN
    IF Len(leafHashesInOrder) = 0 THEN resetToIdle(s)
    ELSE startLeaf([s EXCEPT !.visitedLeafHashes = {},
                             !.visitedNodeHashes = {},
                             !.branchCycleChoices = EmptyMap,
                             !.acceptedInCycle = EmptyMap,
                             !.pendingNextLeafHash = NoLeaf,
                             !.isCompleted = FALSE,
                             !.isTransitioningBetweenLines = FALSE,
                             !.isAwaitingLineAdvance = FALSE,
                             !.moveRejectionMessage = NoMessage,
                             !.remainingLineCount = Len(leafHashesInOrder)],
                   leafHashesInOrder[1]))

\* the history of accepted branch moves: a cycle ends once every option was taken
RecordAccepted(accepted, positionKey, san, options) ==
  LET before == IF MapHas(accepted, positionKey) THEN accepted[positionKey] ELSE <<>>
      now == Append(before, san)
  IN  IF options \subseteq Range(now) THEN MapDelete(accepted, positionKey)
      ELSE MapPut(accepted, positionKey, now)

(***************************************************************************)
(* onPieceDrop.  The drop is given by the SAN the validator resolves the   *)
(* two squares to, IllegalSan for a drop it rejects.                       *)
(***************************************************************************)
\* a guard that lets a drop through while the engine is auto-playing
onPieceDropGuard_DuringAutoPlay(s) ==
  /\ ~s.isCompleted
  /\ ~s.isPaused
  /\ ~s.isAwaitingLineAdvance
  /\ ~isCurrentLineComplete(s)
  /\ isUsersTurn(s)
  /\ TargetSanAt(s, s.currentMoveIdx + 1) # NoSan

\* a guard that lets a drop through while the session is paused
onPieceDropGuard_WhilePaused(s) ==
  /\ ~s.isCompleted
  /\ ~s.isAutoPlaying
  /\ ~s.isAwaitingLineAdvance
  /\ ~isCurrentLineComplete(s)
  /\ isUsersTurn(s)
  /\ TargetSanAt(s, s.currentMoveIdx + 1) # NoSan

onPieceDropGuard(s) ==
  /\ ~s.isCompleted
  /\ ~s.isAutoPlaying
  /\ ~s.isPaused
  /\ ~s.isAwaitingLineAdvance
  /\ ~isCurrentLineComplete(s)
  /\ isUsersTurn(s)
  /\ TargetSanAt(s, s.currentMoveIdx + 1) # NoSan

\* a cycle set that is never remembered
alreadyChosenAt_Forgotten(s, positionKey) == {}

\* branchCycleChoicesRef.current.get(positionKey) ?? new Set()
alreadyChosenAt(s, positionKey) ==
  IF MapHas(s.branchCycleChoices, positionKey) THEN s.branchCycleChoices[positionKey] ELSE {}

\* a drop whose off-book rejection sets the rejection message
onPieceDrop_OffBookMessage(s0, san) ==
  With(s0, LAMBDA s :
    LET rejected == [s EXCEPT !.dropResult = "rejected"]
        playedMovesBefore == s.chess
        nextMoveIndexInLine == s.currentMoveIdx + 1
        expectedMove == TargetSanAt(s, nextMoveIndexInLine)
        positionKey == getPositionKey(nextMoveIndexInLine, playedMovesBefore)
        moveToLeafHashes == MoveToLeafHashesAt(s, positionKey)
        leafHashesForMove == IF MapHas(moveToLeafHashes, san) THEN moveToLeafHashes[san] ELSE <<>>
        isKnownPgnMoveAtPosition == Len(leafHashesForMove) > 0
        isBranch == Cardinality(DOMAIN moveToLeafHashes) > 1
        alreadyChosenAtPosition == alreadyChosenAt(s, positionKey)
        chosenNow == alreadyChosenAtPosition \cup {san}
        selectedLeafHash == chooseLeafHash(leafHashesForMove, s.visitedLeafHashes)
        occurrenceKey == toPgnMoveOccurrenceKey(positionKey, san)
    IN  IF ~onPieceDropGuard(s) THEN rejected
        ELSE IF ~IsLegal(s.chess, san) THEN rejected
        ELSE IF ~isKnownPgnMoveAtPosition /\ san # expectedMove
        THEN [rejected EXCEPT !.currFen = Fen(s.chess),
                              !.moveRejectionMessage = AlreadyChosenMessage]
        ELSE IF isBranch /\ san \in alreadyChosenAtPosition
        THEN [rejected EXCEPT !.currFen = Fen(s.chess),
                              !.moveRejectionMessage = AlreadyChosenMessage]
        ELSE
          With([s EXCEPT
                  !.chess = Append(@, san),
                  !.acceptedInCycle =
                     IF ~isBranch THEN @
                     ELSE RecordAccepted(@, positionKey, san, DOMAIN moveToLeafHashes),
                  !.branchCycleChoices =
                     IF ~isBranch THEN @
                     ELSE IF Cardinality(chosenNow) >= Cardinality(DOMAIN moveToLeafHashes)
                     THEN MapDelete(@, positionKey)
                     ELSE MapPut(@, positionKey, chosenNow),
                  !.currentTargetLeafHash =
                     IF selectedLeafHash # NoLeaf THEN selectedLeafHash ELSE @],
               LAMBDA s2 :
          With(markVisitedNodeHash(s2, OccurrenceNodeHash(s2, occurrenceKey)), LAMBDA s3 :
          With(syncNextMoveState(
                 [s3 EXCEPT !.playedSanHistory = RecordPlayed(@, nextMoveIndexInLine, san),
                            !.currentMoveIdx = nextMoveIndexInLine],
                 nextMoveIndexInLine),
               LAMBDA s5 :
          With([s5 EXCEPT !.recentAutoMoveOccurrenceKey = NoKey,
                          !.furthestMoveIdx = Max(@, nextMoveIndexInLine),
                          !.currFen = Fen(s5.chess),
                          !.moveRejectionMessage = NoMessage,
                          !.dropResult = "accepted"],
               LAMBDA s6 :
            IF isCurrentLineComplete(s6) THEN advanceToNextLineOrComplete(s6)
            ELSE IF ~isUsersTurn(s6) THEN runAutoMoves(s6, 1)
            ELSE s6)))))

\* a drop that keeps the cycle set when every branch move has been chosen
onPieceDrop_NeverForget(s0, san) ==
  With(s0, LAMBDA s :
    LET rejected == [s EXCEPT !.dropResult = "rejected"]
        playedMovesBefore == s.chess
        nextMoveIndexInLine == s.currentMoveIdx + 1
        expectedMove == TargetSanAt(s, nextMoveIndexInLine)
        positionKey == getPositionKey(nextMoveIndexInLine, playedMovesBefore)
        moveToLeafHashes == MoveToLeafHashesAt(s, positionKey)
        leafHashesForMove == IF MapHas(moveToLeafHashes, san) THEN moveToLeafHashes[san] ELSE <<>>
        isKnownPgnMoveAtPosition == Len(leafHashesForMove) > 0
        isBranch == Cardinality(DOMAIN moveToLeafHashes) > 1
        alreadyChosenAtPosition == alreadyChosenAt(s, positionKey)
        chosenNow == alreadyChosenAtPosition \cup {san}
        selectedLeafHash == chooseLeafHash(leafHashesForMove, s.visitedLeafHashes)
        occurrenceKey == toPgnMoveOccurrenceKey(positionKey, san)
    IN  IF ~onPieceDropGuard(s) THEN rejected
        ELSE IF ~IsLegal(s.chess, san) THEN rejected
        ELSE IF ~isKnownPgnMoveAtPosition /\ san # expectedMove
        THEN [rejected EXCEPT !.currFen = Fen(s.chess)]
        ELSE IF isBranch /\ san \in alreadyChosenAtPosition
        THEN [rejected EXCEPT !.currFen = Fen(s.chess),
                              !.moveRejectionMessage = AlreadyChosenMessage]
        ELSE
          With([s EXCEPT
                  !.chess = Append(@, san),
                  !.acceptedInCycle =
                     IF ~isBranch THEN @
                     ELSE RecordAccepted(@, positionKey, san, DOMAIN moveToLeafHashes),
                  !.branchCycleChoices =
                     IF ~isBranch THEN @
                     ELSE MapPut(@, positionKey, chosenNow),
                  !.currentTargetLeafHash =
                     IF selectedLeafHash # NoLeaf THEN selectedLeafHash ELSE @],
               LAMBDA s2 :
          With(markVisitedNodeHash(s2, OccurrenceNodeHash(s2, occurrenceKey)), LAMBDA s3 :
          With(syncNextMoveState(
                 [s3 EXCEPT !.playedSanHistory = RecordPlayed(@, nextMoveIndexInLine, san),
                            !.currentMoveIdx = nextMoveIndexInLine],
                 nextMoveIndexInLine),
               LAMBDA s5 :
          With([s5 EXCEPT !.recentAutoMoveOccurrenceKey = NoKey,
                          !.furthestMoveIdx = Max(@, nextMoveIndexInLine),
                          !.currFen = Fen(s5.chess),
                          !.moveRejectionMessage = NoMessage,
                          !.dropResult = "accepted"],
               LAMBDA s6 :
            IF isCurrentLineComplete(s6) THEN advanceToNextLineOrComplete(s6)
            ELSE IF ~isUsersTurn(s6) THEN runAutoMoves(s6, 1)
            ELSE s6)))))

\* a drop whose already-chosen rejection leaves the move on the validator
onPieceDrop_NoUndo(s0, san) ==
  With(s0, LAMBDA s :
    LET rejected == [s EXCEPT !.dropResult = "rejected"]
        playedMovesBefore == s.chess
        nextMoveIndexInLine == s.currentMoveIdx + 1
        expectedMove == TargetSanAt(s, nextMoveIndexInLine)
        positionKey == getPositionKey(nextMoveIndexInLine, playedMovesBefore)
        moveToLeafHashes == MoveToLeafHashesAt(s, positionKey)
        leafHashesForMove == IF MapHas(moveToLeafHashes, san) THEN moveToLeafHashes[san] ELSE <<>>
        isKnownPgnMoveAtPosition == Len(leafHashesForMove) > 0
        isBranch == Cardinality(DOMAIN moveToLeafHashes) > 1
        alreadyChosenAtPosition == alreadyChosenAt(s, positionKey)
        chosenNow == alreadyChosenAtPosition \cup {san}
        selectedLeafHash == chooseLeafHash(leafHashesForMove, s.visitedLeafHashes)
        occurrenceKey == toPgnMoveOccurrenceKey(positionKey, san)
    IN  IF ~onPieceDropGuard(s) THEN rejected
        ELSE IF ~IsLegal(s.chess, san) THEN rejected
        ELSE IF ~isKnownPgnMoveAtPosition /\ san # expectedMove
        THEN [rejected EXCEPT !.currFen = Fen(s.chess)]
        ELSE IF isBranch /\ san \in alreadyChosenAtPosition
        THEN [rejected EXCEPT !.chess = Append(@, san),
                              !.currFen = Fen(Append(s.chess, san)),
                              !.moveRejectionMessage = AlreadyChosenMessage]
        ELSE
          With([s EXCEPT
                  !.chess = Append(@, san),
                  !.acceptedInCycle =
                     IF ~isBranch THEN @
                     ELSE RecordAccepted(@, positionKey, san, DOMAIN moveToLeafHashes),
                  !.branchCycleChoices =
                     IF ~isBranch THEN @
                     ELSE IF Cardinality(chosenNow) >= Cardinality(DOMAIN moveToLeafHashes)
                     THEN MapDelete(@, positionKey)
                     ELSE MapPut(@, positionKey, chosenNow),
                  !.currentTargetLeafHash =
                     IF selectedLeafHash # NoLeaf THEN selectedLeafHash ELSE @],
               LAMBDA s2 :
          With(markVisitedNodeHash(s2, OccurrenceNodeHash(s2, occurrenceKey)), LAMBDA s3 :
          With(syncNextMoveState(
                 [s3 EXCEPT !.playedSanHistory = RecordPlayed(@, nextMoveIndexInLine, san),
                            !.currentMoveIdx = nextMoveIndexInLine],
                 nextMoveIndexInLine),
               LAMBDA s5 :
          With([s5 EXCEPT !.recentAutoMoveOccurrenceKey = NoKey,
                          !.furthestMoveIdx = Max(@, nextMoveIndexInLine),
                          !.currFen = Fen(s5.chess),
                          !.moveRejectionMessage = NoMessage,
                          !.dropResult = "accepted"],
               LAMBDA s6 :
            IF isCurrentLineComplete(s6) THEN advanceToNextLineOrComplete(s6)
            ELSE IF ~isUsersTurn(s6) THEN runAutoMoves(s6, 1)
            ELSE s6)))))

onPieceDrop(s0, san) ==
  With(s0, LAMBDA s :
    LET rejected == [s EXCEPT !.dropResult = "rejected"]
        playedMovesBefore == s.chess
        nextMoveIndexInLine == s.currentMoveIdx + 1
        expectedMove == TargetSanAt(s, nextMoveIndexInLine)
        positionKey == getPositionKey(nextMoveIndexInLine, playedMovesBefore)
        moveToLeafHashes == MoveToLeafHashesAt(s, positionKey)
        leafHashesForMove == IF MapHas(moveToLeafHashes, san) THEN moveToLeafHashes[san] ELSE <<>>
        isKnownPgnMoveAtPosition == Len(leafHashesForMove) > 0
        isBranch == Cardinality(DOMAIN moveToLeafHashes) > 1
        alreadyChosenAtPosition == alreadyChosenAt(s, positionKey)
        chosenNow == alreadyChosenAtPosition \cup {san}
        selectedLeafHash == chooseLeafHash(leafHashesForMove, s.visitedLeafHashes)
        occurrenceKey == toPgnMoveOccurrenceKey(positionKey, san)
    IN  IF ~onPieceDropGuard(s) THEN rejected
        ELSE IF ~IsLegal(s.chess, san) THEN rejected
        ELSE IF ~isKnownPgnMoveAtPosition /\ san # expectedMove
        THEN [rejected EXCEPT !.currFen = Fen(s.chess)]
        ELSE IF isBranch /\ san \in alreadyChosenAtPosition
        THEN [rejected EXCEPT !.currFen = Fen(s.chess),
                              !.moveRejectionMessage = AlreadyChosenMessage]
        ELSE
          With([s EXCEPT
                  !.chess = Append(@, san),
                  !.acceptedInCycle =
                     IF ~isBranch THEN @
                     ELSE RecordAccepted(@, positionKey, san, DOMAIN moveToLeafHashes),
                  !.branchCycleChoices =
                     IF ~isBranch THEN @
                     ELSE IF Cardinality(chosenNow) >= Cardinality(DOMAIN moveToLeafHashes)
                     THEN MapDelete(@, positionKey)
                     ELSE MapPut(@, positionKey, chosenNow),
                  !.currentTargetLeafHash =
                     IF selectedLeafHash # NoLeaf THEN selectedLeafHash ELSE @],
               LAMBDA s2 :
          With(markVisitedNodeHash(s2, OccurrenceNodeHash(s2, occurrenceKey)), LAMBDA s3 :
          With(syncNextMoveState(
                 [s3 EXCEPT !.playedSanHistory = RecordPlayed(@, nextMoveIndexInLine, san),
                            !.currentMoveIdx = nextMoveIndexInLine],
                 nextMoveIndexInLine),
               LAMBDA s5 :
          With([s5 EXCEPT !.recentAutoMoveOccurrenceKey = NoKey,
                          !.furthestMoveIdx = Max(@, nextMoveIndexInLine),
                          !.currFen = Fen(s5.chess),
                          !.moveRejectionMessage = NoMessage,
                          !.dropResult = "accepted"],
               LAMBDA s6 :
            IF isCurrentLineComplete(s6) THEN advanceToNextLineOrComplete(s6)
            ELSE IF ~isUsersTurn(s6) THEN runAutoMoves(s6, 1)
            ELSE s6)))))

(***************************************************************************)
(* Stepping through the played history, and the hint preview.              *)
(***************************************************************************)
\* a guard that lets the steps run while the session is paused
stepGuard_WhilePaused(s) ==
  /\ ~s.isCompleted
  /\ ~s.isAutoPlaying
  /\ ~s.isAwaitingLineAdvance

stepGuard(s) ==
  /\ ~s.isCompleted
  /\ ~s.isAutoPlaying
  /\ ~s.isPaused
  /\ ~s.isAwaitingLineAdvance

\* a step forward that leaves the next expected move as it was
stepForward_NoSync(s0) ==
  With(s0, LAMBDA s :
    LET nextMoveIndexInLine == s.currentMoveIdx + 1
        nextMove == IF nextMoveIndexInLine + 1 <= Len(s.playedSanHistory)
                    THEN s.playedSanHistory[nextMoveIndexInLine + 1] ELSE NoSan
    IN  IF ~stepGuard(s) THEN s
        ELSE IF s.currentMoveIdx >= s.furthestMoveIdx THEN s
        ELSE IF nextMove = NoSan THEN s
        ELSE IF ~IsLegal(s.chess, nextMove) THEN s
        ELSE [s EXCEPT !.chess = Append(@, nextMove),
                       !.currentMoveIdx = nextMoveIndexInLine,
                       !.recentAutoMoveOccurrenceKey = NoKey,
                       !.currFen = Fen(Append(s.chess, nextMove))])

stepForward(s0) ==
  With(s0, LAMBDA s :
    LET nextMoveIndexInLine == s.currentMoveIdx + 1
        nextMove == IF nextMoveIndexInLine + 1 <= Len(s.playedSanHistory)
                    THEN s.playedSanHistory[nextMoveIndexInLine + 1] ELSE NoSan
    IN  IF ~stepGuard(s) THEN s
        ELSE IF s.currentMoveIdx >= s.furthestMoveIdx THEN s
        ELSE IF nextMove = NoSan THEN s
        ELSE IF ~IsLegal(s.chess, nextMove) THEN s
        ELSE With(syncNextMoveState([s EXCEPT !.chess = Append(@, nextMove),
                                              !.currentMoveIdx = nextMoveIndexInLine],
                                    nextMoveIndexInLine),
                  LAMBDA s2 :
               [s2 EXCEPT !.recentAutoMoveOccurrenceKey = NoKey,
                          !.currFen = Fen(s2.chess)]))

\* a step back that moves the index and leaves the validator where it was
stepBackward_NoUndo(s0) ==
  With(s0, LAMBDA s :
    IF ~stepGuard(s) THEN s
    ELSE IF s.currentMoveIdx < 0 THEN s
    ELSE With(syncNextMoveState([s EXCEPT !.currentMoveIdx = @ - 1],
                                s.currentMoveIdx - 1),
              LAMBDA s2 :
           [s2 EXCEPT !.recentAutoMoveOccurrenceKey = NoKey,
                      !.currFen = Fen(s2.chess)]))

stepBackward(s0) ==
  With(s0, LAMBDA s :
    IF ~stepGuard(s) THEN s
    ELSE IF s.currentMoveIdx < 0 THEN s
    ELSE With(syncNextMoveState([s EXCEPT !.chess = Front(@),
                                          !.currentMoveIdx = @ - 1],
                                s.currentMoveIdx - 1),
              LAMBDA s2 :
           [s2 EXCEPT !.recentAutoMoveOccurrenceKey = NoKey,
                      !.currFen = Fen(s2.chess)]))

\* a hint that plays the previewed move on the validator
showHint_Commits(s0) ==
  With(s0, LAMBDA s :
    LET nextMoveIndexInLine == s.currentMoveIdx + 1
        nextMove == TargetSanAt(s, nextMoveIndexInLine)
    IN  IF ~stepGuard(s) THEN s
        ELSE IF ~isUsersTurn(s) THEN s
        ELSE IF nextMove = NoSan THEN s
        ELSE IF ~IsLegal(s.chess, nextMove) THEN s
        ELSE scheduleAction([s EXCEPT !.isAutoPlaying = TRUE,
                                      !.chess = Append(@, nextMove),
                                      !.currFen = Fen(Append(s.chess, nextMove))],
                            "hintRevert", 0, NoLeaf))

showHint(s0) ==
  With(s0, LAMBDA s :
    LET nextMoveIndexInLine == s.currentMoveIdx + 1
        nextMove == TargetSanAt(s, nextMoveIndexInLine)
    IN  IF ~stepGuard(s) THEN s
        ELSE IF ~isUsersTurn(s) THEN s
        ELSE IF nextMove = NoSan THEN s
        ELSE IF ~IsLegal(s.chess, nextMove) THEN s
        ELSE scheduleAction([s EXCEPT !.isAutoPlaying = TRUE,
                                      !.currFen = Fen(Append(s.chess, nextMove))],
                            "hintRevert", 0, NoLeaf))

\* the callback showHint schedules
hintRevertCallback(s) ==
  [s EXCEPT !.currFen = Fen(s.chess), !.isAutoPlaying = FALSE]

\* the callback flashAutoMoveOccurrence schedules
highlightCallback(s) ==
  [s EXCEPT !.autoMoveHighlightTimeoutId = 0, !.recentAutoMoveOccurrenceKey = NoKey]

(***************************************************************************)
(* The effects: pause/resume, and the rebuild of the session.              *)
(***************************************************************************)
\* a pause that leaves the scheduled timers pending
pauseEffect_KeepsTimers(s0) ==
  With(s0, LAMBDA s :
    IF s.isPaused THEN [s EXCEPT !.isAutoPlaying = FALSE]
    ELSE IF s.currentTargetLeafHash = NoLeaf THEN s
    ELSE IF s.isCompleted \/ s.isAwaitingLineAdvance \/ s.isAutoPlaying THEN s
    ELSE IF ~isCurrentLineComplete(s) /\ ~isUsersTurn(s) THEN runAutoMoves(s, 1)
    ELSE s)

\* runs after isPausedRef has taken the new value
pauseEffect(s0) ==
  With(s0, LAMBDA s :
    IF s.isPaused THEN [clearScheduledTimeouts(s) EXCEPT !.isAutoPlaying = FALSE,
                                                         !.leafChain = "none"]
    ELSE IF s.currentTargetLeafHash = NoLeaf THEN s
    ELSE IF s.isCompleted \/ s.isAwaitingLineAdvance \/ s.isAutoPlaying THEN s
    ELSE IF ~isCurrentLineComplete(s) /\ ~isUsersTurn(s) THEN runAutoMoves(s, 1)
    ELSE s)

\* the effect returns clearScheduledActions as its cleanup unless the tree is empty
rebuildCleanup(s0) ==
  With(s0, LAMBDA s :
    IF Len(treeIndexOf(s).leafHashesInOrder) = 0 THEN s ELSE clearScheduledActions(s))

rebuildEffect(s0) ==
  With(s0, LAMBDA s :
    LET leafHashesInOrder == treeIndexOf(s).leafHashesInOrder
        initialVisitedNodeSet == s.initialVisitedNodeHashes
        visitedLeaves == {h \in Range(leafHashesInOrder) : h \in initialVisitedNodeSet}
    IN  IF Len(leafHashesInOrder) = 0 THEN resetToIdle(clearScheduledActions(s))
        ELSE
          With([s EXCEPT !.visitedNodeHashes = initialVisitedNodeSet,
                         !.visitedLeafHashes = visitedLeaves,
                         !.branchCycleChoices = EmptyMap,
                         !.acceptedInCycle = EmptyMap,
                         !.pendingNextLeafHash = NoLeaf,
                         !.isAwaitingLineAdvance = FALSE,
                         !.remainingLineCount =
                            Max(Len(leafHashesInOrder) - Cardinality(visitedLeaves), 0)],
               LAMBDA s1 :
            LET firstLeafHash == getNextIncompleteLeafHash(s1) IN
            IF firstLeafHash = NoLeaf
            THEN [s1 EXCEPT !.isCompleted = TRUE,
                            !.isTransitioningBetweenLines = FALSE,
                            !.isAwaitingLineAdvance = FALSE,
                            !.remainingLineCount = 0,
                            !.nextExpectedMoveSan = NoSan,
                            !.nextMovePositionKey = getPositionKey(0, <<>>)]
            ELSE startLeaf(s1, firstLeafHash)))

\* the hook right after useState/useRef, before the first effects
Mounted(text, index, white, skipping, visited, paused, randomize, manual) ==
  [moveText |-> text, isPlayingWhite |-> white, isSkipping |-> skipping,
   initialVisitedNodeHashes |-> visited, isPaused |-> paused,
   randomizeOpponentBranchMoves |-> randomize, manualLineAdvance |-> manual,
   currFen |-> START_FEN, isAutoPlaying |-> FALSE, isCompleted |-> FALSE,
   visitedNodeHashes |-> visited, isTransitioningBetweenLines |-> FALSE,
   isAwaitingLineAdvance |-> FALSE,
   remainingLineCount |-> Len(index.leafHashesInOrder),
   nextExpectedMoveSan |-> NoSan, nextMovePositionKey |-> getPositionKey(0, <<>>),
   recentAutoMoveOccurrenceKey |-> NoKey, moveRejectionMessage |-> NoMessage,
   chess |-> <<>>, currentTargetLeafHash |-> NoLeaf, currentMoveIdx |-> -1,
   furthestMoveIdx |-> -1, playedSanHistory |-> <<>>, scheduledTimeoutIds |-> <<>>,
   autoMoveHighlightTimeoutId |-> 0, visitedLeafHashes |-> {},
   branchCycleChoices |-> EmptyMap, pendingNextLeafHash |-> NoLeaf,
   treeIndex |-> index, skipPlies |-> skipPliesOfText(text), timeouts |-> {},
   dropResult |-> "none", lastAdvance |-> "none", onSessionCompleteCalls |-> 0,
   leafChain |-> "none", acceptedInCycle |-> EmptyMap]

(***************************************************************************)
(* The state after the first render and its effects, and the events.       *)
(***************************************************************************)
SessionInitWith(texts, pausedChoices) ==
  \E text \in texts :
  LET index == treeIndexOfText(text) IN
  \E white \in BOOLEAN, skipping \in BOOLEAN,
     visited \in InitialVisitedChoices(index), paused \in pausedChoices,
     randomize \in BOOLEAN, manual \in BOOLEAN :
    LET s == rebuildEffect(pauseEffect(
               Mounted(text, index, white, skipping, visited, paused, randomize, manual)))
    IN  /\ moveText = s.moveText
        /\ isPlayingWhite = s.isPlayingWhite
        /\ isSkipping = s.isSkipping
        /\ initialVisitedNodeHashes = s.initialVisitedNodeHashes
        /\ isPaused = s.isPaused
        /\ randomizeOpponentBranchMoves = s.randomizeOpponentBranchMoves
        /\ manualLineAdvance = s.manualLineAdvance
        /\ currFen = s.currFen
        /\ isAutoPlaying = s.isAutoPlaying
        /\ isCompleted = s.isCompleted
        /\ visitedNodeHashes = s.visitedNodeHashes
        /\ isTransitioningBetweenLines = s.isTransitioningBetweenLines
        /\ isAwaitingLineAdvance = s.isAwaitingLineAdvance
        /\ remainingLineCount = s.remainingLineCount
        /\ nextExpectedMoveSan = s.nextExpectedMoveSan
        /\ nextMovePositionKey = s.nextMovePositionKey
        /\ recentAutoMoveOccurrenceKey = s.recentAutoMoveOccurrenceKey
        /\ moveRejectionMessage = s.moveRejectionMessage
        /\ chess = s.chess
        /\ currentTargetLeafHash = s.currentTargetLeafHash
        /\ currentMoveIdx = s.currentMoveIdx
        /\ furthestMoveIdx = s.furthestMoveIdx
        /\ playedSanHistory = s.playedSanHistory
        /\ scheduledTimeoutIds = s.scheduledTimeoutIds
        /\ autoMoveHighlightTimeoutId = s.autoMoveHighlightTimeoutId
        /\ visitedLeafHashes = s.visitedLeafHashes
        /\ branchCycleChoices = s.branchCycleChoices
        /\ pendingNextLeafHash = s.pendingNextLeafHash
        /\ treeIndex = s.treeIndex
        /\ skipPlies = s.skipPlies
        /\ timeouts = s.timeouts
        /\ dropResult = "none"
        /\ lastAdvance = "none"
        /\ onSessionCompleteCalls = s.onSessionCompleteCalls
        /\ leafChain = s.leafChain
        /\ acceptedInCycle = s.acceptedInCycle

\* the session is mounted; the parser is not run on its own
InitWith(texts, pausedChoices) ==
  /\ SessionInitWith(texts, pausedChoices)
  /\ pgnSource = "none"
  /\ pgnMoveText = <<>>
  /\ pgnMainlines = <<>>
  /\ pgnMoveTree = <<>>
  /\ pgnTreeIndex = EmptyIndex
  /\ pgnStage = "idle"

Init == InitWith(MainTextIds, BOOLEAN)

\* a pending timer fires: scheduleAction's wrapper forgets the id, then runs the callback
FireAutoMove ==
  \E t \in timeouts :
    /\ t.kind = "autoMove"
    /\ \E s \in {[Cur EXCEPT !.timeouts = clearTimeout(@, t.id),
                             !.scheduledTimeoutIds = removeTimeoutId(@, t.id)]} :
         \E option \in PlayOptions(s) : Do(autoMoveCallback(s, t.plies, option))

FireStartLeaf ==
  \E t \in timeouts :
    /\ t.kind = "startLeaf"
    /\ \E s \in {[Cur EXCEPT !.timeouts = clearTimeout(@, t.id),
                             !.scheduledTimeoutIds = removeTimeoutId(@, t.id)]} :
         Do(startLeaf(s, t.leaf))

FireHintRevert ==
  \E t \in timeouts :
    /\ t.kind = "hintRevert"
    /\ \E s \in {[Cur EXCEPT !.timeouts = clearTimeout(@, t.id),
                             !.scheduledTimeoutIds = removeTimeoutId(@, t.id)]} :
         Do(hintRevertCallback(s))

FireHighlight ==
  \E t \in timeouts :
    /\ t.kind = "highlight"
    /\ Do(highlightCallback([Cur EXCEPT !.timeouts = clearTimeout(@, t.id)]))

OnPieceDrop == \E san \in DropInputs(treeIndex) : Do(onPieceDrop(Cur, san))

ContinueToNextLine == Do(continueToNextLine(Cur))

RestartSession == Do(restartSession(Cur))

StepForward == Do(stepForward(Cur))

StepBackward == Do(stepBackward(Cur))

ShowHint == Do(showHint(Cur))

\* the isPaused prop changes: isPausedRef is synced, then the pause effect runs
SetPaused == Do(pauseEffect([Cur EXCEPT !.isPaused = ~@]))

\* a prop the rebuild effect depends on changes: cleanup, ref sync, effect
ChangeMoveText ==
  \E text \in MainTextIds \ {moveText} :
    Do(rebuildEffect([rebuildCleanup(markSuperseded(Cur)) EXCEPT
                            !.moveText = text,
                            !.treeIndex = treeIndexOfText(text),
                            !.skipPlies = skipPliesOfText(text)]))

ChangeColor ==
  Do(rebuildEffect([rebuildCleanup(markSuperseded(Cur)) EXCEPT !.isPlayingWhite = ~@]))

ChangeSkipping ==
  Do(rebuildEffect([rebuildCleanup(markSuperseded(Cur)) EXCEPT !.isSkipping = ~@]))

\* props that only update their ref
ChangeRandomize == Do([Cur EXCEPT !.randomizeOpponentBranchMoves = ~@])

ChangeManualLineAdvance == Do([Cur EXCEPT !.manualLineAdvance = ~@])

ChangeInitialVisited ==
  \E visited \in InitialVisitedChoices(treeIndex) \ {initialVisitedNodeHashes} :
    Do([Cur EXCEPT !.initialVisitedNodeHashes = visited])

Next ==
  \/ FireAutoMove
  \/ FireStartLeaf
  \/ FireHintRevert
  \/ FireHighlight
  \/ OnPieceDrop
  \/ ContinueToNextLine
  \/ RestartSession
  \/ StepForward
  \/ StepBackward
  \/ ShowHint
  \/ SetPaused
  \/ ChangeMoveText
  \/ ChangeColor
  \/ ChangeSkipping
  \/ ChangeRandomize
  \/ ChangeManualLineAdvance
  \/ ChangeInitialVisited

Spec == Init /\ [][Next]_vars

(***************************************************************************)
(* A drill: one study with fixed settings, never paused; the learner only  *)
(* drops pieces, asks for hints and continues to the next line.            *)
(***************************************************************************)
InitDrill == InitWith(TextIds, {FALSE})

NextDrill ==
  \/ FireAutoMove
  \/ FireStartLeaf
  \/ FireHintRevert
  \/ FireHighlight
  \/ OnPieceDrop
  \/ ContinueToNextLine
  \/ ShowHint

DrillSpec == InitDrill /\ [][NextDrill]_vars

\* a drill of the study whose variation transposes into its main line
InitTransposed == InitWith({Len(MoveTexts)}, {FALSE})

TransposedSpec == InitTransposed /\ [][NextDrill]_vars

(***************************************************************************)
(* A practice session: a drill in which the learner may also restart and   *)
(* step through the line.                                                  *)
(***************************************************************************)
NextPractice ==
  \/ FireAutoMove
  \/ FireStartLeaf
  \/ FireHintRevert
  \/ FireHighlight
  \/ OnPieceDrop
  \/ ContinueToNextLine
  \/ ShowHint
  \/ RestartSession
  \/ StepForward
  \/ StepBackward

\* the studies short enough to be stepped through exhaustively
InitPractice == InitWith({1, 2, 3, 4}, {FALSE})

PracticeSpec == InitPractice /\ [][NextPractice]_vars

(***************************************************************************)
(* A drill whose timers fire and whose learner, whenever a drop can be     *)
(* accepted, eventually makes one, and continues to the next line when the *)
(* session waits for that.                                                 *)
(***************************************************************************)
AcceptedDrop ==
  \E san \in DropInputs(treeIndex) :
    \E s \in {onPieceDrop(Cur, san)} :
      /\ s.dropResult = "accepted"
      /\ Commit(s)

LiveSpec ==
  /\ InitDrill
  /\ [][NextDrill]_vars
  /\ WF_vars(FireAutoMove)
  /\ WF_vars(FireStartLeaf)
  /\ WF_vars(FireHintRevert)
  /\ WF_vars(FireHighlight)
  /\ SF_vars(AcceptedDrop)
  /\ WF_vars(ContinueToNextLine)

(***************************************************************************)
(* A drill that may be paused and resumed: two short studies, the timers   *)
(* fire, the learner keeps making accepted drops and continues to the next *)
(* line when the session waits for that.                                   *)
(***************************************************************************)
NextPausedDrill == NextDrill \/ SetPaused

PausedDrillSpec ==
  /\ Init
  /\ [][NextPausedDrill]_vars
  /\ WF_vars(FireAutoMove)
  /\ WF_vars(FireStartLeaf)
  /\ WF_vars(FireHintRevert)
  /\ WF_vars(FireHighlight)
  /\ SF_vars(AcceptedDrop)
  /\ WF_vars(ContinueToNextLine)

(***************************************************************************)
(* The parser run on its own, on every short move text and every short     *)
(* list of lines; the session stays idle on the empty text.                *)
(***************************************************************************)
MaxTextLen == 6

MaxLineLen == 2

MaxLines == 2

RECURSIVE SeqsUpTo(_, _)
SeqsUpTo(S, n) ==
  IF n = 0 THEN {<<>>}
  ELSE LET shorter == SeqsUpTo(S, n - 1) IN
       shorter \cup {Append(q, x) : q \in {r \in shorter : Len(r) = n - 1}, x \in S}

\* "1. a ( 1. c b 2. a x ) 1... b 2. c x": two move orders into one position
TransposingText ==
  <<Num("1."), San("a"), Open, Num("1."), San("c"), San("b"), Num("2."), San("a"), San("x"),
    Close, Num("1..."), San("b"), Num("2."), San("c"), San("x")>>

\* every short text over three moves and the parentheses, and move texts with
\* the decorations tokenizeMoveText removes
PgnTexts ==
  SeqsUpTo({San("a"), San("b"), San("c"), Open, Close}, MaxTextLen)
    \cup {TutorialText, NestedText, TransposingText,
          <<Num("1."), Glyphed("a"), San("b"), Open, Num("1..."), San("e"), Close, San("1-0")>>,
          <<Num("1."), San("a"), San("b"), Open, Num("1..."), San("c"), Num("2."), San("a"),
            Open, Num("2."), San("b"), Close, Close, Num("2."), San("c")>>,
          <<Num("1."), San("a"), San("b"), Open, Num("1..."), San("b"), Num("2."), San("c"),
            Close, Open, Num("1..."), San("e"), Close, Num("2."), San("f")>>}

\* lists of lines given to mainlinesToMoveTree directly, a move the validator
\* rejects included, and longer lists: a line and its prefix, a repeated
\* line, three lines with a shared opening, two move orders that reach the
\* same position, two spellings of one first move
PgnLineLists ==
  SeqsUpTo(SeqsUpTo({"a", "b", IllegalSan}, MaxLineLen), MaxLines)
    \cup {<<<<"a", "b", "c">>, <<"a", "b">>>>,
          <<<<CheckMarkedSan, "b">>, <<"a", "c">>>>,
          <<<<"a", "b">>, <<"a", "b", "c">>, <<"a", "b">>>>,
          <<<<"a", "b", "c">>, <<"a", "b", "e">>, <<"a", "f">>>>,
          <<<<"a", "b", "c", "x">>, <<"c", "b", "a", "x">>>>}

ParserInit ==
  /\ SessionInitWith({1}, {FALSE})
  /\ isPlayingWhite /\ ~isSkipping /\ ~randomizeOpponentBranchMoves /\ ~manualLineAdvance
  /\ pgnMoveTree = <<>>
  /\ pgnTreeIndex = EmptyIndex
  /\ \/ /\ pgnSource = "moveText"
        /\ pgnMoveText \in PgnTexts
        /\ pgnMainlines = <<>>
        /\ pgnStage = "text"
     \/ /\ pgnSource = "mainlines"
        /\ pgnMoveText = <<>>
        /\ pgnMainlines \in PgnLineLists
        /\ pgnStage = "lines"

\* mainlines = moveTextToMainlines(moveText)
ParseMoveText ==
  /\ pgnStage = "text"
  /\ pgnMainlines' = moveTextToMainlines(pgnMoveText)
  /\ pgnStage' = "lines"
  /\ UNCHANGED <<session, dropResult, lastAdvance, onSessionCompleteCalls, leafChain,
                  acceptedInCycle,
                 pgnSource, pgnMoveText, pgnMoveTree, pgnTreeIndex>>

\* root = mainlinesToMoveTree(mainlines)
BuildMoveTree ==
  /\ pgnStage = "lines"
  /\ pgnMoveTree' = mainlinesToMoveTree(pgnMainlines)
  /\ pgnStage' = "tree"
  /\ UNCHANGED <<session, dropResult, lastAdvance, onSessionCompleteCalls, leafChain,
                  acceptedInCycle,
                 pgnSource, pgnMoveText, pgnMainlines, pgnTreeIndex>>

\* treeIndex = buildTreeIndex(lineMovesByIndex)
BuildTreeIndex ==
  /\ pgnStage = "tree"
  /\ pgnTreeIndex' = buildTreeIndex(pgnMainlines)
  /\ pgnStage' = "index"
  /\ UNCHANGED <<session, dropResult, lastAdvance, onSessionCompleteCalls, leafChain,
                  acceptedInCycle,
                 pgnSource, pgnMoveText, pgnMainlines, pgnMoveTree>>

ParserNext == ParseMoveText \/ BuildMoveTree \/ BuildTreeIndex

ParserSpec == ParserInit /\ [][ParserNext]_vars

(***************************************************************************)
(* Properties of the session.                                              *)
(***************************************************************************)
LeafSet == Range(treeIndex.leafHashesInOrder)

\* the session waits for the learner's drop
AwaitingUserMove ==
  /\ onPieceDropGuard(Cur)
  /\ scheduledTimeoutIds = <<>>

ScheduledActions == {t \in timeouts : t.kind # "highlight"}

\* C3: at a branching position, the moves onPieceDrop accepts between two
\* resets of the position's branch-cycle set are pairwise distinct: a move is
\* accepted again only after every recorded option was accepted once.
C3_DistinctWithinCycle ==
  \A k \in DOMAIN acceptedInCycle :
    /\ \A i, j \in DOMAIN acceptedInCycle[k] :
         i # j => acceptedInCycle[k][i] # acceptedInCycle[k][j]
    /\ MapHas(branchCycleChoices, k)
    /\ branchCycleChoices[k] = Range(acceptedInCycle[k])

C3_Witness ==
  \E k \in DOMAIN acceptedInCycle :
    /\ Len(acceptedInCycle[k]) = 2
    /\ dropResult = "accepted"

\* C4: line advancement is never triggered for a leaf that is already in the
\* visited-leaf set, so every leaf is exercised exactly once.
C4_NoRepeatedAdvance == lastAdvance # "repeat"

\* C6: a human move is committed only at a ply of the human's colour: after a
\* drop that onPieceDrop accepted, the ply just played is even iff the human
\* plays White.
C6_TurnRule ==
  dropResult = "accepted" =>
    /\ currentMoveIdx >= 0
    /\ (currentMoveIdx % 2 = 0) <=> isPlayingWhite

C6_Witness ==
  /\ dropResult = "accepted"
  /\ currentMoveIdx = 1
  /\ ~isPlayingWhite

\* C7: at most one scheduled action (auto-move step, line-transition timer or
\* hint revert) is pending at any time.
C7_AtMostOnePending ==
  /\ Len(scheduledTimeoutIds) <= 1
  /\ Cardinality(ScheduledActions) <= 1
  /\ {t.id : t \in ScheduledActions} = Range(scheduledTimeoutIds)

C7_Witness ==
  /\ \E t \in ScheduledActions : t.kind = "hintRevert"
  /\ Len(scheduledTimeoutIds) = 1

\* C9: after a teardown, a rebuild, a restart or the start of a leaf, no timer
\* scheduled before it is still pending, so none of their callbacks runs later.
C9_NoStaleTimers == \A t \in timeouts : ~t.superseded

C9_Witness ==
  /\ initialVisitedNodeHashes = {}
  /\ Cardinality(visitedLeafHashes) = 1
  /\ currentMoveIdx = -1
  /\ \E t \in timeouts : t.kind = "autoMove"

\* the condition under which a resume continues the auto-play
ResumeContinues ==
  /\ currentTargetLeafHash # NoLeaf
  /\ ~isCompleted
  /\ ~isAwaitingLineAdvance
  /\ ~isCurrentLineComplete(Cur)
  /\ ~isUsersTurn(Cur)

\* C8: when isPaused becomes true every pending scheduled action is cancelled
\* and the position, ply indices, target leaf, played history, visited sets and
\* branch-cycle map are unchanged; when isPaused becomes false exactly one
\* auto-move is scheduled if a leaf is active, the session is neither completed
\* nor awaiting line advance, the leaf is incomplete and the next ply is not
\* the human's, and nothing is scheduled otherwise.
C8_PauseResume ==
  [][ /\ (~isPaused /\ isPaused') =>
           /\ scheduledTimeoutIds' = <<>>
           /\ \A t \in timeouts' : t.kind = "highlight"
           /\ UNCHANGED progress
      /\ (isPaused /\ ~isPaused') =>
           /\ UNCHANGED progress
           /\ IF ResumeContinues
              THEN /\ Len(scheduledTimeoutIds') = 1
                   /\ \E t \in timeouts' :
                        /\ t.kind = "autoMove"
                        /\ t.plies = 1
                        /\ t.id = scheduledTimeoutIds'[1]
                        /\ \A u \in timeouts' : u.kind # "highlight" => u = t
              ELSE /\ scheduledTimeoutIds' = <<>>
                   /\ \A t \in timeouts' : t.kind = "highlight"
    ]_vars

\* paused in the middle of a line on a ply of the opponent, nothing pending
C8_Witness ==
  /\ isPaused
  /\ currentMoveIdx >= 0
  /\ ResumeContinues
  /\ scheduledTimeoutIds = <<>>
  /\ ~isAutoPlaying

AllLinesCompleted == isCompleted /\ visitedLeafHashes = LeafSet

TutorialSkipping == MoveTexts[moveText] = TutorialText /\ isSkipping

TutorialOpening == <<"e4", "e5", "Nf3", "Nc6", "Bb5", "a6", "Ba4">>

\* C10 (as claimed): on the tutorial text with skipping on, the auto-play that
\* starts a leaf stops after the six plies 0-5 and the session then awaits the
\* learner.
C10_AsClaimed ==
  (TutorialSkipping /\ currentMoveIdx = 5) => \A t \in timeouts : t.kind # "autoMove"

\* C10 (amended): on the tutorial text with skipping on, an uninterrupted start
\* of a leaf auto-plays the seven plies 0-6 (e4 e5 Nf3 Nc6 Bb5 a6 Ba4); a
\* learner playing Black is then awaited at the branching ply 7, for a learner
\* playing White ply 7 is auto-played as well and the learner is awaited at
\* ply 8, whichever leaf is the target.
C10_SkipToFirstBranch ==
  TutorialSkipping =>
    LET lastAutoPly == IF isPlayingWhite THEN 7 ELSE 6 IN
    /\ skipPlies = 7
    /\ AwaitingUserMove =>
         /\ currentMoveIdx >= lastAutoPly
         /\ SubSeq(chess, 1, 7) = TutorialOpening
    /\ (currentMoveIdx < lastAutoPly /\ currentTargetLeafHash # NoLeaf /\ ~isCompleted) =>
         /\ isAutoPlaying
         /\ \E t \in timeouts : t.kind = "autoMove" /\ t.plies = lastAutoPly - currentMoveIdx
    /\ currentMoveIdx = lastAutoPly => \A t \in timeouts : t.kind # "autoMove"

C10_Witness ==
  /\ TutorialSkipping
  /\ ~isPlayingWhite
  /\ AwaitingUserMove
  /\ chess = TutorialOpening
  /\ visitedLeafHashes = {}

\* the first leaf in traversal order that is not in a set of hashes
FirstLeafNotIn(hashes) ==
  LET unvisited == SelectSeq(treeIndex.leafHashesInOrder, LAMBDA h : h \notin hashes)
  IN  IF Len(unvisited) > 0 THEN unvisited[1] ELSE NoLeaf

\* C11: restartSession leaves the session with an empty visited-leaf set, an
\* empty visited-node set, an empty branch-cycle map, no timer scheduled before
\* the restart pending, isCompleted false and no pending next leaf, and starts
\* the first leaf in traversal order (if the tree has one) at ply index -1.
C11_RestartFromScratch ==
  [][ RestartSession =>
        /\ visitedLeafHashes' = {}
        /\ visitedNodeHashes' = {}
        /\ branchCycleChoices' = EmptyMap
        /\ \A t \in timeouts' : ~t.superseded /\ t.kind = "autoMove"
        /\ Cardinality(timeouts') <= 1
        /\ ~isCompleted'
        /\ pendingNextLeafHash' = NoLeaf
        /\ currentTargetLeafHash' = FirstLeafNotIn({})
        /\ currentMoveIdx' = -1
        /\ furthestMoveIdx' = -1
        /\ chess' = <<>>
        /\ playedSanHistory' = <<>>
    ]_vars

\* restarted after leaves had been visited: nothing else empties the visited set
C11_Witness ==
  /\ initialVisitedNodeHashes # {}
  /\ LeafSet # {}
  /\ visitedLeafHashes = {}
  /\ currentTargetLeafHash = treeIndex.leafHashesInOrder[1]
  /\ currentMoveIdx = -1

\* C12 (as claimed): restartSession resumes from the first leaf in traversal
\* order whose hash is not in the externally supplied visited set.
C12_AsClaimed ==
  [][ (RestartSession /\ initialVisitedNodeHashes # {}) =>
        currentTargetLeafHash' = FirstLeafNotIn(initialVisitedNodeHashes)
    ]_vars

\* the session as its build leaves it: on the first leaf whose hash is not in
\* the supplied visited set, or completed when the set holds every leaf
BuiltFromSupplied ==
  LET next == FirstLeafNotIn(initialVisitedNodeHashes) IN
  IF LeafSet = {} THEN currentTargetLeafHash = NoLeaf /\ ~isCompleted
  ELSE /\ visitedNodeHashes = initialVisitedNodeHashes
       /\ visitedLeafHashes = LeafSet \cap initialVisitedNodeHashes
       /\ IF next = NoLeaf THEN isCompleted
          ELSE currentTargetLeafHash = next /\ ~isCompleted

\* C12 (amended): only the build of the session resumes from the first leaf
\* whose hash is not in the supplied visited set; restartSession ignores the
\* supplied set: it empties the visited sets and starts the first leaf.
C12_RestartIgnoresSupplied ==
  /\ BuiltFromSupplied
  /\ [][ (RestartSession /\ initialVisitedNodeHashes # {}) =>
           /\ currentTargetLeafHash' = FirstLeafNotIn({})
           /\ visitedNodeHashes' = {}
           /\ visitedLeafHashes' = {}
       ]_vars

\* restarted on a study whose supplied visited set holds the first leaf
C12_Witness ==
  /\ LeafSet # {}
  /\ treeIndex.leafHashesInOrder[1] \in initialVisitedNodeHashes
  /\ currentTargetLeafHash = treeIndex.leafHashesInOrder[1]
  /\ visitedNodeHashes = {}
  /\ ~isAutoPlaying

\* C13: stepForward never advances the current ply index beyond the furthest
\* ply reached in the active leaf and only replays the move recorded in the
\* played history at that ply; stepForward and stepBackward change nothing
\* while the session is auto-playing, paused, awaiting line advance or completed.
C13_StepRule ==
  [][ /\ StepForward =>
           /\ currentMoveIdx' <= furthestMoveIdx
           /\ furthestMoveIdx' = furthestMoveIdx
           /\ playedSanHistory' = playedSanHistory
           /\ \/ UNCHANGED session
              \/ /\ currentMoveIdx' = currentMoveIdx + 1
                 /\ currentMoveIdx' + 1 <= Len(playedSanHistory)
                 /\ chess' = Append(chess, playedSanHistory[currentMoveIdx' + 1])
      /\ ((StepForward \/ StepBackward)
            /\ (isAutoPlaying \/ isPaused \/ isAwaitingLineAdvance \/ isCompleted))
           => UNCHANGED session
    ]_vars

\* stepped back from the furthest ply, with a recorded move to replay
C13_Witness ==
  /\ stepGuard(Cur)
  /\ 0 <= currentMoveIdx
  /\ currentMoveIdx < furthestMoveIdx
  /\ Len(playedSanHistory) = furthestMoveIdx + 1

\* stepBackward applied k times
RECURSIVE StepsBackward(_, _)
StepsBackward(s, k) == IF k = 0 THEN s ELSE StepsBackward(stepBackward(s), k - 1)

\* stepForward applied k times
RECURSIVE StepsForward(_, _)
StepsForward(s, k) == IF k = 0 THEN s ELSE StepsForward(stepForward(s), k - 1)

\* position, ply index and next expected move of a ply
PlyView(s) == <<s.chess, s.currentMoveIdx, s.nextExpectedMoveSan>>

\* k steps back reach ply currentMoveIdx - k, and j steps forward from there
\* show what the way back showed at the same ply
SamePliesBackAndForth(k) ==
  /\ StepsBackward(Cur, k).currentMoveIdx = currentMoveIdx - k
  /\ \A j \in 0..k :
       PlyView(StepsForward(StepsBackward(Cur, k), j)) = PlyView(StepsBackward(Cur, k - j))

\* C14 (as claimed): stepping backward k times and then forward k times through
\* played plies reproduces position, ply index and next expected move at every
\* intermediate ply, and ends in the state it started from.
C14_AsClaimed ==
  stepGuard(Cur) =>
    \A k \in 1..(currentMoveIdx + 1) :
      /\ SamePliesBackAndForth(k)
      /\ StepsForward(StepsBackward(Cur, k), k) = Cur

\* C14 (amended): the plies are reproduced, and the end state is the start
\* state except that the highlight of the recent auto-move is cleared and the
\* displayed position is the validator's.
C14_BackThenForward ==
  stepGuard(Cur) =>
    \A k \in 1..(currentMoveIdx + 1) :
      /\ SamePliesBackAndForth(k)
      /\ StepsForward(StepsBackward(Cur, k), k) =
           [Cur EXCEPT !.recentAutoMoveOccurrenceKey = NoKey, !.currFen = Fen(chess)]

\* two played plies to step through, the second one a highlighted auto-move
C14_Witness ==
  /\ stepGuard(Cur)
  /\ currentMoveIdx >= 1
  /\ currentMoveIdx = furthestMoveIdx
  /\ recentAutoMoveOccurrenceKey # NoKey

\* C15: after showHint displays a preview, the displayed position (currFen)
\* returns to the validator's committed position and isAutoPlaying returns to
\* false, whatever intervenes: once no revert is pending any more and the
\* session is neither auto-playing nor paused, the displayed position is the
\* committed one.
C15_PreviewReverts ==
  (~(\E t \in timeouts : t.kind = "hintRevert") /\ ~isAutoPlaying /\ ~isPaused) =>
    currFen = Fen(chess)

\* C16: showHint takes effect only on the human's turn with the session not
\* completed, auto-playing, paused or awaiting advance, and it commits
\* nothing: validator position and history, ply indices, furthest ply, target
\* leaf, visited sets and branch-cycle map are the same after the hint, and
\* after its revert, as before.
C16_HintCommitsNothing ==
  [][ /\ ShowHint =>
           /\ UNCHANGED progress
           /\ \/ UNCHANGED session
              \/ /\ isUsersTurn(Cur)
                 /\ ~isCompleted /\ ~isAutoPlaying /\ ~isPaused /\ ~isAwaitingLineAdvance
                 /\ isAutoPlaying'
                 /\ currFen' = Fen(Append(chess, nextExpectedMoveSan))
      /\ FireHintRevert =>
           /\ UNCHANGED progress
           /\ currFen' = Fen(chess)
           /\ ~isAutoPlaying'
    ]_vars

\* a preview on display in the middle of a leaf
C16_Witness ==
  /\ \E t \in timeouts : t.kind = "hintRevert" /\ ~t.superseded
  /\ isAutoPlaying
  /\ currentMoveIdx >= 0
  /\ currFen # Fen(chess)

\* the validator rejects the SAN, or it is neither recorded at the current
\* position key nor the expected next move of the active leaf
IllegalOrOffBook(san) ==
  \/ ~IsLegal(chess, san)
  \/ /\ ~MapHas(MoveToLeafHashesAt(Cur, getPositionKey(currentMoveIdx + 1, chess)), san)
     /\ san # TargetSanAt(Cur, currentMoveIdx + 1)

\* C17: a drop the validator rejects as illegal, or a legal drop whose SAN is
\* neither recorded at the current position key nor the expected next move,
\* returns false and leaves validator position, ply indices, target leaf,
\* played history, visited sets, branch-cycle map, pending timers and the
\* rejection message as they were.
C17_OffBookRejected ==
  [][ \A san \in DropInputs(treeIndex) :
        (onPieceDropGuard(Cur) /\ IllegalOrOffBook(san) /\ Do(onPieceDrop(Cur, san))) =>
          /\ dropResult' = "rejected"
          /\ UNCHANGED progress
          /\ UNCHANGED <<timeouts, scheduledTimeoutIds, autoMoveHighlightTimeoutId>>
          /\ UNCHANGED moveRejectionMessage
    ]_vars

\* an off-book or illegal drop was just rejected, with the highlight timer of
\* the preceding auto-move still pending
C17_Witness ==
  /\ dropResult = "rejected"
  /\ onPieceDropGuard(Cur)
  /\ moveRejectionMessage = NoMessage
  /\ currentMoveIdx >= 0
  /\ \E t \in timeouts : t.kind = "highlight"

\* the branch-cycle set of the position the session is at
CurrentCycleSet ==
  alreadyChosenAt(Cur, getPositionKey(currentMoveIdx + 1, chess))

\* the position the session is at offers more than one recorded move
AtBranchingPosition ==
  Cardinality(DOMAIN MoveToLeafHashesAt(Cur, getPositionKey(currentMoveIdx + 1, chess))) > 1

\* C18: a drop whose SAN is already in the branch-cycle set of the current
\* branching position returns false, is undone on the validator and sets the
\* rejection message; ply indices, target leaf, played history, visited sets
\* and the branch-cycle set itself are unchanged.
C18_AlreadyChosenRejected ==
  [][ \A san \in DropInputs(treeIndex) :
        (/\ onPieceDropGuard(Cur)
         /\ IsLegal(chess, san)
         /\ AtBranchingPosition
         /\ san \in CurrentCycleSet
         /\ Do(onPieceDrop(Cur, san))) =>
          /\ dropResult' = "rejected"
          /\ moveRejectionMessage' = AlreadyChosenMessage
          /\ currFen' = Fen(chess)
          /\ UNCHANGED progress
          /\ UNCHANGED <<timeouts, scheduledTimeoutIds>>
    ]_vars

\* a repeated choice was just rejected at a branching position
C18_Witness ==
  /\ dropResult = "rejected"
  /\ moveRejectionMessage = AlreadyChosenMessage
  /\ onPieceDropGuard(Cur)
  /\ AtBranchingPosition
  /\ CurrentCycleSet # {}

\* C19: onPieceDrop called while the session is completed, auto-playing,
\* paused, awaiting line advance, on an already finished leaf, or when it is
\* not the human's turn returns false, changes no session state and schedules
\* no timer.
C19_GuardedDropNoOp ==
  [][ \A san \in DropInputs(treeIndex) :
        (/\ \/ isCompleted
            \/ isAutoPlaying
            \/ isPaused
            \/ isAwaitingLineAdvance
            \/ isCurrentLineComplete(Cur)
            \/ ~isUsersTurn(Cur)
         /\ Do(onPieceDrop(Cur, san))) =>
          /\ dropResult' = "rejected"
          /\ UNCHANGED session
    ]_vars

\* a drop was just refused in a paused session, in the middle of a leaf
C19_Witness ==
  /\ dropResult = "rejected"
  /\ isPaused
  /\ currentMoveIdx >= 0
  /\ ~isCompleted

\* C20: on leaf completion the completed leaf is added to the visited-leaf
\* set, and the leaf started next (by the scheduled start or by
\* continueToNextLine) is the first leaf of leafHashesInOrder that is not in
\* the visited-leaf set at that moment.
C20_NextLeafIsFirstUnvisited ==
  [][ /\ lastAdvance' # "none" =>
           /\ currentTargetLeafHash' \in visitedLeafHashes'
           /\ visitedLeafHashes' = visitedLeafHashes \cup {currentTargetLeafHash'}
           /\ LET next == FirstLeafNotIn(visitedLeafHashes)' IN
                IF next = NoLeaf THEN isCompleted'
                ELSE \/ pendingNextLeafHash' = next /\ isAwaitingLineAdvance'
                     \/ \E t \in timeouts' : t.kind = "startLeaf" /\ t.leaf = next
      /\ (FireStartLeaf \/ (ContinueToNextLine /\ pendingNextLeafHash # NoLeaf)) =>
           /\ currentTargetLeafHash' = FirstLeafNotIn(visitedLeafHashes)
           /\ currentMoveIdx' = -1
           /\ visitedLeafHashes' = visitedLeafHashes
    ]_vars

\* a leaf was just completed for the first time with two leaves still to
\* visit, and the start of the first of them is scheduled
C20_Witness ==
  /\ lastAdvance = "first"
  /\ currentTargetLeafHash \in visitedLeafHashes
  /\ Cardinality(LeafSet \ visitedLeafHashes) >= 2
  /\ \E t \in timeouts : t.kind = "startLeaf" /\ t.leaf = FirstLeafNotIn(visitedLeafHashes)

\* the transition timers that are pending
TransitionTimers == {t \in timeouts : t.kind = "startLeaf"}

\* C21: with manual line advance enabled and an unvisited leaf remaining,
\* completing a leaf records the pending next leaf, sets isAwaitingLineAdvance
\* and schedules no action; the pending leaf starts only by continueToNextLine
\* (a restart or a rebuild abandons it), and piece drops, steps and hints are
\* no-ops until then.  With manual advance disabled the next leaf is started
\* by a single scheduled transition timer.
C21_ManualAdvance ==
  [][ /\ (lastAdvance' # "none" /\ (FirstLeafNotIn(visitedLeafHashes))' # NoLeaf) =>
           IF manualLineAdvance'
           THEN /\ pendingNextLeafHash' = (FirstLeafNotIn(visitedLeafHashes))'
                /\ isAwaitingLineAdvance'
                /\ ~isAutoPlaying'
                /\ ScheduledActions' = {}
                /\ scheduledTimeoutIds' = <<>>
           ELSE /\ pendingNextLeafHash' = NoLeaf
                /\ ~isAwaitingLineAdvance'
                /\ Cardinality(TransitionTimers') = 1
                /\ ScheduledActions' = TransitionTimers'
                /\ \A t \in TransitionTimers' :
                      /\ t.leaf = (FirstLeafNotIn(visitedLeafHashes))'
                      /\ scheduledTimeoutIds' = <<t.id>>
      /\ (isAwaitingLineAdvance /\ (OnPieceDrop \/ StepForward \/ StepBackward \/ ShowHint)) =>
           UNCHANGED session
      /\ (isAwaitingLineAdvance /\ currentTargetLeafHash' # currentTargetLeafHash) =>
           \/ ContinueToNextLine /\ currentTargetLeafHash' = pendingNextLeafHash
           \/ RestartSession
           \/ ChangeMoveText \/ ChangeColor \/ ChangeSkipping
      /\ (isAwaitingLineAdvance /\ ~isAwaitingLineAdvance') =>
           ContinueToNextLine \/ RestartSession \/ ChangeMoveText \/ ChangeColor \/ ChangeSkipping
      /\ (isAwaitingLineAdvance /\ isAwaitingLineAdvance') =>
           UNCHANGED <<progress, pendingNextLeafHash>> /\ TransitionTimers' = {}
      /\ FireStartLeaf =>
           \E t \in TransitionTimers : currentTargetLeafHash' = t.leaf /\ currentMoveIdx' = -1
    ]_vars

\* a leaf was just completed in manual mode and the session waits for the
\* learner, the next leaf recorded
C21_Witness ==
  /\ lastAdvance # "none"
  /\ manualLineAdvance
  /\ isAwaitingLineAdvance
  /\ pendingNextLeafHash = FirstLeafNotIn(visitedLeafHashes)
  /\ pendingNextLeafHash # NoLeaf
  /\ currentMoveIdx >= 0

\* C22 (as claimed): every time isCompleted changes from false to true the
\* completion callback is invoked exactly once, and it is never invoked while
\* an unvisited leaf remains.
C22_AsClaimed ==
  [][ /\ (~isCompleted /\ isCompleted') => onSessionCompleteCalls' = 1
      /\ onSessionCompleteCalls' > 0 => LeafSet' \subseteq visitedLeafHashes'
    ]_vars

\* C22 (amended): the callback is invoked exactly once when the completion of
\* a leaf leaves no unvisited leaf, which is when isCompleted changes from
\* false to true by play, and never while an unvisited leaf remains; a rebuild
\* that finds every leaf in the supplied visited set sets isCompleted without
\* invoking it.
C22_CallbackOnLastLeaf ==
  [][ /\ onSessionCompleteCalls' <= 1
      /\ onSessionCompleteCalls' = 1 =>
           /\ ~isCompleted /\ isCompleted'
           /\ lastAdvance' # "none"
           /\ LeafSet' # {}
           /\ LeafSet' \subseteq visitedLeafHashes'
      /\ (~isCompleted /\ isCompleted') =>
           \/ onSessionCompleteCalls' = 1
           \/ /\ ChangeMoveText \/ ChangeColor \/ ChangeSkipping
              /\ LeafSet' \subseteq initialVisitedNodeHashes'
              /\ lastAdvance' = "none"
    ]_vars

\* the last leaf was just completed and the callback invoked
C22_Witness ==
  /\ isCompleted
  /\ onSessionCompleteCalls = 1
  /\ visitedLeafHashes = LeafSet
  /\ initialVisitedNodeHashes = {}

(***************************************************************************)
(* Properties of the parser and of the tree.                               *)
(***************************************************************************)
\* the parser has run on a move text
Parsed == pgnSource = "moveText" /\ pgnStage # "text"

\* the tree of the given or parsed lines has been built
TreeBuilt == pgnStage \in {"tree", "index"}

\* the ply of a node: its distance from the root
RECURSIVE NodePly(_, _)
NodePly(tree, i) == IF i = 0 THEN 0 ELSE 1 + NodePly(tree, tree[i].parent)

NodesAtPly(tree, ply) == {i \in 1..Len(tree) : NodePly(tree, i) = ply}

\* the terminal nodes of the tree, the root excluded
TerminalNodes(tree) == {i \in 1..Len(tree) : Len(ChildrenOf(tree, i)) = 0}

\* the moves from the root to a node
RECURSIVE PathTo(_, _)
PathTo(tree, i) == IF i = 0 THEN <<>> ELSE Append(PathTo(tree, tree[i].parent), tree[i].move)

TutorialMainLine ==
  <<"e4", "e5", "Nf3", "Nc6", "Bb5", "a6", "Ba4", "b5", "Bb3", "Nf6", "O-O">>

TutorialVariation ==
  <<"e4", "e5", "Nf3", "Nc6", "Bb5", "a6", "Ba4", "Nf6", "O-O", "Nxe4", "Re1", "Nd6">>

\* the tree is one chain of nodes for the first n plies and has two nodes at ply n + 1
DivergesAfter(tree, n) ==
  /\ \A ply \in 1..n : Cardinality(NodesAtPly(tree, ply)) = 1
  /\ Cardinality(NodesAtPly(tree, n + 1)) = 2

\* C23 (as claimed): the tutorial move text yields exactly its two mainlines,
\* and in the merged tree they share the first 6 plies as one prefix before
\* diverging at ply 7.
C23_AsClaimed ==
  (pgnMoveText = TutorialText /\ Parsed /\ TreeBuilt) =>
    /\ Len(pgnMainlines) = 2
    /\ Range(pgnMainlines) = {TutorialMainLine, TutorialVariation}
    /\ DivergesAfter(pgnMoveTree, 6)

\* C23 (amended): the tutorial move text yields exactly its two mainlines,
\* the variation first, and in the merged tree they share the first 7 plies (up to Ba4) as one
\* prefix before diverging at ply 8 (b5 or Nf6).
C23_TutorialTree ==
  (pgnMoveText = TutorialText /\ Parsed /\ TreeBuilt) =>
    /\ pgnMainlines = <<TutorialVariation, TutorialMainLine>>
    /\ DivergesAfter(pgnMoveTree, 7)
    /\ {PathTo(pgnMoveTree, i) : i \in TerminalNodes(pgnMoveTree)} =
         {TutorialMainLine, TutorialVariation}
    /\ {pgnMoveTree[i].move : i \in NodesAtPly(pgnMoveTree, 8)} = {"b5", "Nf6"}

\* the tree of the tutorial move text has been built
C23_Witness ==
  /\ pgnMoveText = TutorialText
  /\ Parsed
  /\ pgnStage = "tree"
  /\ Len(pgnMoveTree) = 16

(***************************************************************************)
(* The mainlines a move text describes, read off the token list without    *)
(* running the parser: a parenthesised branch is an alternative to the     *)
(* last move played before it at the same nesting level.                   *)
(***************************************************************************)
IsParen(token) == token \in {"(", ")"}

\* the "(" tokens still open after the first i tokens; <<-1>> once a ")" had
\* nothing to close
RECURSIVE OpenBranches(_, _)
OpenBranches(tokens, i) ==
  IF i = 0 THEN <<>>
  ELSE LET before == OpenBranches(tokens, i - 1) IN
       IF before = <<-1>> THEN before
       ELSE IF tokens[i] = "(" THEN Append(before, i)
       ELSE IF tokens[i] = ")" THEN (IF Len(before) = 0 THEN <<-1>> ELSE Front(before))
       ELSE before

\* the branches that enclose token i
Enclosing(tokens, i) == OpenBranches(tokens, i - 1)

MoveIndexes(tokens) == {i \in 1..Len(tokens) : ~IsParen(tokens[i])}

\* the moves before token i at the nesting level of token i
MovesBeforeAtLevel(tokens, i) ==
  {q \in MoveIndexes(tokens) : q < i /\ Enclosing(tokens, q) = Enclosing(tokens, i)}

\* the moves of the line that ends where the branches in stack are open
LineThrough(tokens, stack, end) ==
  LET \* the move the branch opened at token g is an alternative to
      ReplacedMove(g) ==
        CHOOSE q \in MovesBeforeAtLevel(tokens, g) :
          \A r \in MovesBeforeAtLevel(tokens, g) : r <= q
      replaced == {ReplacedMove(stack[n]) : n \in 1..Len(stack)}
      visible == {q \in MoveIndexes(tokens) :
                    /\ q < end
                    /\ IsPrefix(Enclosing(tokens, q), stack)
                    /\ q \notin replaced}
      ordered == SelectSeq([i \in 1..Len(tokens) |-> i], LAMBDA i : i \in visible)
  IN  [n \in 1..Len(ordered) |-> tokens[ordered[n]]]

DescribedMainlines(tokens) ==
  {LineThrough(tokens, Enclosing(tokens, c), c) : c \in {i \in 1..Len(tokens) : tokens[i] = ")"}}
    \cup {LineThrough(tokens, <<>>, Len(tokens) + 1)}

\* every move of the text is one the validator plays
AllMovesLegal(tokens) == \A i \in MoveIndexes(tokens) : tokens[i] \in LegalSans

\* the parser ran on a well-formed text of legal moves: balanced, every
\* branch follows a move of its level and holds a move of its own
ParsedWellFormed ==
  /\ Parsed
  /\ LET tokens == tokenizeMoveText(pgnMoveText) IN
     /\ OpenBranches(tokens, Len(tokens)) = <<>>
     /\ \A g \in 1..Len(tokens) :
          tokens[g] = "(" =>
            /\ MovesBeforeAtLevel(tokens, g) # {}
            /\ g < Len(tokens) /\ ~IsParen(tokens[g + 1])
     /\ AllMovesLegal(tokens)
     /\ MoveIndexes(tokens) # {}

\* C24 (as claimed): for a move text whose branches describe k >= 1 distinct
\* legally playable mainlines, moveTextToMainlines returns exactly those k
\* mainlines and the tree built from them has exactly k terminal nodes.
C24_AsClaimed ==
  ParsedWellFormed =>
    LET described == DescribedMainlines(tokenizeMoveText(pgnMoveText)) IN
    /\ Range(pgnMainlines) = described
    /\ Len(pgnMainlines) = Cardinality(described)
    /\ TreeBuilt => Cardinality(TerminalNodes(pgnMoveTree)) = Cardinality(described)

\* the lines that are not the beginning of a longer line
MaximalLines(lines) ==
  {m \in lines : ~\E n \in lines : n # m /\ IsPrefix(m, n)}

\* C24 (amended): for a move text whose branches describe k >= 1 distinct
\* legally playable mainlines, moveTextToMainlines returns exactly those k
\* mainlines, and the tree built from them has one terminal node for each
\* mainline that is not the beginning of another mainline: exactly k
\* terminal nodes when no mainline is the beginning of another.
C24_DescribedMainlines ==
  ParsedWellFormed =>
    LET described == DescribedMainlines(tokenizeMoveText(pgnMoveText)) IN
    /\ Range(pgnMainlines) = described
    /\ Len(pgnMainlines) = Cardinality(described)
    /\ TreeBuilt =>
         /\ {PathTo(pgnMoveTree, i) : i \in TerminalNodes(pgnMoveTree)} = MaximalLines(described)
         /\ Cardinality(TerminalNodes(pgnMoveTree)) = Cardinality(MaximalLines(described))
         /\ MaximalLines(described) = described =>
              Cardinality(TerminalNodes(pgnMoveTree)) = Cardinality(described)

\* the tree of a text with a branch inside a branch and three mainlines
C24_Witness ==
  /\ ParsedWellFormed
  /\ pgnStage = "tree"
  /\ Len(pgnMainlines) = 3
  /\ Cardinality(TerminalNodes(pgnMoveTree)) = 3
  /\ LET tokens == tokenizeMoveText(pgnMoveText) IN
     \E g \in 1..Len(tokens) : Len(Enclosing(tokens, g)) = 2

\* C25: round trip: for every mainline m returned by moveTextToMainlines (all
\* moves legal) the tree index contains a LeafPlan whose sanPath equals m.
C25_RoundTrip ==
  (Parsed /\ pgnStage = "index" /\ AllMovesLegal(tokenizeMoveText(pgnMoveText))) =>
    Range(pgnMainlines) \subseteq
      {pgnTreeIndex.leafPlansByHash[h].sanPath : h \in DOMAIN pgnTreeIndex.leafPlansByHash}

\* C26: an empty branch body "( )" contributes no mainline: the list returned
\* for a text containing an empty branch equals the list returned for the
\* same text with that empty branch removed.
C26_EmptyBranchDiscarded ==
  Parsed =>
    \A i \in 1..(Len(pgnMoveText) - 1) :
      (pgnMoveText[i] = Open /\ pgnMoveText[i + 1] = Close) =>
        pgnMainlines =
          moveTextToMainlines(SubSeq(pgnMoveText, 1, i - 1)
                                \o SubSeq(pgnMoveText, i + 2, Len(pgnMoveText)))

\* the number of branches the text leaves open at its end
Unclosed(tokens) ==
  IF OpenBranches(tokens, Len(tokens)) = <<-1>> THEN 0
  ELSE Len(OpenBranches(tokens, Len(tokens)))

\* C27: for every token sequence, including ones with unmatched ")" or
\* unclosed "(", parseMainlines terminates and returns a list without raising
\* an error (the parse stops inside the token list only at a ")", and what
\* comes back is a list of non-empty lines made of the moves of the text);
\* the empty token list yields the empty list of mainlines.
C27_ParserTotal ==
  pgnSource = "moveText" =>
    LET tokens == tokenizeMoveText(pgnMoveText)
        parsed == parseMainlines(tokens, 1, <<>>)
        mainlines == moveTextToMainlines(pgnMoveText)
    IN  /\ Parsed => pgnMainlines = mainlines
        /\ tokens = <<>> => mainlines = <<>>
        /\ parsed.index \in 1..(Len(tokens) + 1 + Unclosed(tokens))
        /\ parsed.index <= Len(tokens) => tokens[parsed.index] = ")"
        /\ DOMAIN parsed.lines = 1..Len(parsed.lines)
        /\ DOMAIN mainlines = 1..Len(mainlines)
        /\ \A n \in 1..Len(mainlines) :
             /\ DOMAIN mainlines[n] = 1..Len(mainlines[n])
             /\ mainlines[n] # <<>>
             /\ Range(mainlines[n]) \subseteq {tokens[i] : i \in MoveIndexes(tokens)}

\* a text with a ")" that closes nothing and moves after it has been parsed
C27_Witness ==
  /\ Parsed
  /\ LET tokens == tokenizeMoveText(pgnMoveText) IN
     /\ OpenBranches(tokens, Len(tokens)) = <<-1>>
     /\ \E i \in 1..(Len(tokens) - 1) : tokens[i] = ")" /\ ~IsParen(tokens[i + 1])
     /\ \E i \in 1..Len(tokens) : tokens[i] = "("
  /\ pgnMainlines # <<>>

\* C28: a trailing unclosed "(" is implicitly closed at end of input: for
\* every token sequence ending inside one or more open branches,
\* moveTextToMainlines returns the same ordered list as for that sequence
\* with the missing ")" tokens appended.
C28_ImplicitClose ==
  (Parsed /\ Unclosed(tokenizeMoveText(pgnMoveText)) > 0) =>
    pgnMainlines =
      moveTextToMainlines(
        pgnMoveText \o [i \in 1..Unclosed(tokenizeMoveText(pgnMoveText)) |-> Close])

\* a text that ends inside a branch of a branch has been parsed
C28_Witness ==
  /\ Parsed
  /\ Unclosed(tokenizeMoveText(pgnMoveText)) = 2
  /\ Len(pgnMainlines) = 3

\* C29: in the tree built by mainlinesToMoveTree, the children of every node
\* have pairwise-distinct move text, for any list of mainlines.
C29_DistinctChildren ==
  TreeBuilt =>
    \A i, j \in 1..Len(pgnMoveTree) :
      (i # j /\ pgnMoveTree[i].parent = pgnMoveTree[j].parent) =>
        pgnMoveTree[i].move # pgnMoveTree[j].move

\* the tree of two lines that spell their common first move differently
C29_Witness ==
  /\ TreeBuilt
  /\ pgnSource = "mainlines"
  /\ pgnMainlines = <<<<CheckMarkedSan, "b">>, <<"a", "c">>>>
  /\ Len(pgnMoveTree) = 3
  /\ Len(ChildrenOf(pgnMoveTree, 1)) = 2

(***************************************************************************)
(* Properties of the start of a leaf.                                      *)
(***************************************************************************)
\* C30: after startLeaf on a leaf with at least one ply, once the auto-play
\* chain it schedules has finished without a pause, either the leaf is
\* complete or the next ply is the human's: the number of auto-played plies
\* is min(skipPlies, leaf length) when skipping is enabled (0 otherwise), plus
\* one when that count is below the leaf length and lands on a non-human ply.
C30_AutoPlayChain ==
  leafChain = "finished" =>
    /\ HasTargetPlan(Cur)
    /\ LET len == Len(getCurrentTargetPlan(Cur).sanPath)
           skipped == IF isSkipping THEN Min(skipPlies, len) ELSE 0
           landsOnNonHumanPly == ((skipped % 2 = 0) # isPlayingWhite)
           autoPlayed == IF skipped < len /\ landsOnNonHumanPly THEN skipped + 1 ELSE skipped
       IN
       /\ len >= 1
       /\ Len(chess) = autoPlayed
       /\ currentMoveIdx + 1 = autoPlayed
       /\ (currentMoveIdx + 1 >= len \/ isUsersTurn(Cur))

\* a chain of skipped plies and one more for the other side has finished
\* short of the end of the leaf
C30_Witness ==
  /\ leafChain = "finished"
  /\ isSkipping
  /\ skipPlies >= 1
  /\ HasTargetPlan(Cur)
  /\ currentMoveIdx + 1 = skipPlies + 1
  /\ currentMoveIdx + 1 < Len(getCurrentTargetPlan(Cur).sanPath)

(***************************************************************************)
(* Properties of the choice of moves and of target leaves.                 *)
(***************************************************************************)
\* C31: with opponent randomization enabled, an auto-played non-human ply at a
\* position with more than one recorded move is one of the moves recorded
\* there, is a move leading to at least one unvisited leaf whenever such a
\* move exists, and the target leaf is redirected to a leaf whose path
\* contains the played move (an unvisited one if any); with randomization
\* disabled, or on a human ply, the auto-played move is the target leaf's
\* expected next move and the target leaf is unchanged.
C31_RandomizedAutoMove ==
  [][(FireAutoMove /\ Len(chess') = Len(chess) + 1) =>
       LET played == chess'[Len(chess')]
           recorded == MoveToLeafHashesAt(Cur, getPositionKey(currentMoveIdx + 1, chess))
           unvisitedVia(m) == {h \in Range(recorded[m]) : h \notin visitedLeafHashes}
       IN  /\ currentMoveIdx' = currentMoveIdx + 1
           /\ IF randomizeOpponentBranchMoves /\ ~isUsersTurn(Cur)
                 /\ Cardinality(DOMAIN recorded) > 1
              THEN /\ played \in DOMAIN recorded
                   /\ (\E m \in DOMAIN recorded : unvisitedVia(m) # {}) =>
                        unvisitedVia(played) # {}
                   /\ currentTargetLeafHash' \in Range(recorded[played])
                   /\ LET path == treeIndex.leafPlansByHash[currentTargetLeafHash'].sanPath
                      IN  IsPrefix(chess', path)
                   /\ unvisitedVia(played) # {} =>
                        currentTargetLeafHash' \in unvisitedVia(played)
              ELSE /\ played = TargetSanAt(Cur, currentMoveIdx + 1)
                   /\ currentTargetLeafHash' = currentTargetLeafHash]_vars

\* the opponent's reply at a branching position has just been auto-played and
\* the target moved away from a leaf already visited
C31_Witness ==
  /\ randomizeOpponentBranchMoves
  /\ chess # <<>>
  /\ currentMoveIdx = Len(chess) - 1
  /\ ((currentMoveIdx % 2 = 0) # isPlayingWhite)
  /\ LET key == getPositionKey(currentMoveIdx, Front(chess)) IN
     /\ recentAutoMoveOccurrenceKey = toPgnMoveOccurrenceKey(key, chess[Len(chess)])
     /\ Cardinality(DOMAIN MoveToLeafHashesAt(Cur, key)) > 1
  /\ visitedLeafHashes # {}
  /\ currentTargetLeafHash \notin visitedLeafHashes
  /\ currentTargetLeafHash # treeIndex.leafHashesInOrder[1]

\* C32: after onPieceDrop accepts a move, the target leaf is a leaf whose
\* sanPath begins with the moves played so far followed by the accepted SAN,
\* and it is an unvisited leaf whenever at least one leaf reachable by that
\* move from that position is unvisited (as the visited leaves stood when
\* the move was dropped, and as they stand after the handler).
C32_TargetFollowsDrop ==
  [][(OnPieceDrop /\ dropResult' = "accepted") =>
       LET reachable == {h \in DOMAIN treeIndex.leafPlansByHash :
                           IsPrefix(chess', treeIndex.leafPlansByHash[h].sanPath)}
       IN  /\ Len(chess') = Len(chess) + 1
           /\ SubSeq(chess', 1, Len(chess)) = chess
           /\ currentTargetLeafHash' \in reachable
           /\ (reachable \ visitedLeafHashes # {}) =>
                currentTargetLeafHash' \notin visitedLeafHashes
           /\ (reachable \ visitedLeafHashes' # {}) =>
                currentTargetLeafHash' \notin visitedLeafHashes']_vars

\* a drop has been accepted that several leaves continue, one of them visited
\* and listed before the target
C32_Witness ==
  /\ dropResult = "accepted"
  /\ currentTargetLeafHash \notin visitedLeafHashes
  /\ \E h \in visitedLeafHashes :
       /\ IsPrefix(chess, treeIndex.leafPlansByHash[h].sanPath)
       /\ \E i, j \in 1..Len(treeIndex.leafHashesInOrder) :
            /\ i < j
            /\ treeIndex.leafHashesInOrder[i] = h
            /\ treeIndex.leafHashesInOrder[j] = currentTargetLeafHash

(***************************************************************************)
(* Properties of pausing between two lines.                                *)
(***************************************************************************)
\* C33: if the session is paused while the inter-line transition timer to the
\* next leaf is pending and is later resumed, the next unvisited leaf is
\* eventually started: in a session that from some time on is never paused,
\* a transition that waits for its timer leads to the start of a leaf (the
\* session does not remain on the finished leaf with no timer pending).
C33_ResumedTransitionStarts ==
  (<>[](~isPaused)) =>
    ((isTransitioningBetweenLines /\ ~isAwaitingLineAdvance /\ ~isCompleted)
       ~> ~isTransitioningBetweenLines)

(***************************************************************************)
(* Properties of the tree index.                                           *)
(***************************************************************************)
\* C34 (as claimed): leafHashesInOrder lists the leaves in the same relative
\* order as their mainlines appear in the list returned by
\* moveTextToMainlines.
C34_AsClaimed ==
  (Parsed /\ pgnStage = "index" /\ AllMovesLegal(tokenizeMoveText(pgnMoveText))) =>
    LET order == pgnTreeIndex.leafHashesInOrder
        pathOf(n) == pgnTreeIndex.leafPlansByHash[order[n]].sanPath
        placeOf(line) == CHOOSE n \in 1..Len(pgnMainlines) : pgnMainlines[n] = line
    IN  \A i, j \in 1..Len(order) :
          i < j => placeOf(pathOf(i)) < placeOf(pathOf(j))

\* C34 (amended): leafHashesInOrder lists the leaves in depth-first order, the
\* children of a node in the order in which the mainlines first reach them:
\* of two leaves, the one listed first is the one whose path, cut after the
\* first ply where the two paths differ, begins the earlier mainline.  This
\* is the order of the mainlines whenever the mainlines that share an opening
\* are adjacent in the list (no line without the opening lies between two
\* lines that have it).
C34_DepthFirstOrder ==
  (Parsed /\ pgnStage = "index" /\ AllMovesLegal(tokenizeMoveText(pgnMoveText))) =>
    LET order == pgnTreeIndex.leafHashesInOrder
        pathOf(n) == pgnTreeIndex.leafPlansByHash[order[n]].sanPath
        placeOf(line) == CHOOSE n \in 1..Len(pgnMainlines) : pgnMainlines[n] = line
        firstWith(opening) ==
          CHOOSE n \in 1..Len(pgnMainlines) :
            /\ IsPrefix(opening, pgnMainlines[n])
            /\ \A k \in 1..(n - 1) : ~IsPrefix(opening, pgnMainlines[k])
        forkOf(p, q) == CHOOSE d \in 1..Len(p) : (d > Len(q) \/ p[d] # q[d])
                                                 /\ SubSeq(p, 1, d - 1) = SubSeq(q, 1, d - 1)
        openingsAdjacent ==
          \A a, b, c \in 1..Len(pgnMainlines) :
            (a < b /\ b < c) =>
              \A d \in 1..Len(pgnMainlines[a]) :
                IsPrefix(SubSeq(pgnMainlines[a], 1, d), pgnMainlines[c]) =>
                  IsPrefix(SubSeq(pgnMainlines[a], 1, d), pgnMainlines[b])
    IN  /\ \A i \in 1..Len(order) : pathOf(i) \in Range(pgnMainlines)
        /\ \A i, j \in 1..Len(order) :
             i < j =>
               LET d == forkOf(pathOf(i), pathOf(j)) IN
               firstWith(SubSeq(pathOf(i), 1, d)) < firstWith(SubSeq(pathOf(j), 1, d))
        /\ openingsAdjacent =>
             \A i, j \in 1..Len(order) :
               i < j => placeOf(pathOf(i)) < placeOf(pathOf(j))

\* the index of a text whose second line lies between two lines that share
\* the opening a b
C34_Witness ==
  /\ Parsed
  /\ pgnStage = "index"
  /\ pgnMainlines = <<<<"a", "b", "c">>, <<"a", "e">>, <<"a", "b", "f">>>>
  /\ Len(pgnTreeIndex.leafHashesInOrder) = 3
  /\ pgnTreeIndex.leafPlansByHash[pgnTreeIndex.leafHashesInOrder[2]].sanPath = <<"a", "b", "f">>

\* C35: buildTreeIndex records exactly one LeafPlan per terminal node of the
\* tree (root excluded): the number of entries of leafHashesInOrder equals the
\* number of terminal nodes, including when two terminal nodes reached by
\* different move orders have the same position, move number, final move and
\* side.
C35_OneLeafPerTerminal ==
  pgnStage = "index" =>
    /\ Len(pgnTreeIndex.leafHashesInOrder) = Cardinality(TerminalNodes(pgnMoveTree))
    /\ Cardinality(DOMAIN pgnTreeIndex.leafPlansByHash) = Cardinality(TerminalNodes(pgnMoveTree))

(***************************************************************************)
(* Invariants of the session.                                              *)
(***************************************************************************)
\* C36: in every reachable session state the validator's move history has
\* length currentMoveIdx + 1 and is a prefix of the sanPath of the current
\* target leaf, after any sequence of accepted or rejected drops, auto-moves,
\* steps, hints and line switches (without a target leaf the history is
\* empty).
C36_HistoryFollowsTarget ==
  /\ Len(chess) = currentMoveIdx + 1
  /\ HasTargetPlan(Cur) => IsPrefix(chess, getCurrentTargetPlan(Cur).sanPath)
  /\ ~HasTargetPlan(Cur) => chess = <<>>

\* in the second line the learner stepped back from the furthest ply and then
\* dropped a move that was accepted
C36_Witness ==
  /\ HasTargetPlan(Cur)
  /\ visitedLeafHashes # {}
  /\ currentMoveIdx >= 1
  /\ currentMoveIdx < furthestMoveIdx
  /\ dropResult = "accepted"

C38_CycleSetNeverFull ==
  LET positionKey == getPositionKey(currentMoveIdx + 1, chess)
      recorded(key) == DOMAIN MoveToLeafHashesAt(Cur, key)
  IN  /\ \A key \in DOMAIN branchCycleChoices :
            Cardinality(recorded(key)) > 1 => ~(recorded(key) \subseteq branchCycleChoices[key])
      /\ (onPieceDropGuard(Cur) /\ Cardinality(recorded(positionKey)) > 1) =>
            \E san \in recorded(positionKey) :
               onPieceDrop(Cur, san).dropResult = "accepted"

C38_Witness ==
  LET positionKey == getPositionKey(currentMoveIdx + 1, chess)
  IN  /\ onPieceDropGuard(Cur)
      /\ Cardinality(DOMAIN MoveToLeafHashesAt(Cur, positionKey)) > 1
      /\ alreadyChosenAt(Cur, positionKey) # {}
      /\ visitedLeafHashes # {}

\* C39: in every reachable session state the visited-leaf set equals the set
\* of leaves whose hash is in the visited-node set, so rebuilding a session
\* with initialVisitedNodeHashes equal to the visitedNodeHashes output of an
\* earlier session over the same move text restores the same visited-leaf set
\* and the same remaining-line count.
C39_VisitedLeavesFromNodes ==
  LET restored ==
        rebuildEffect([rebuildCleanup(markSuperseded(Cur)) EXCEPT
                         !.initialVisitedNodeHashes = visitedNodeHashes])
  IN  /\ visitedLeafHashes = {h \in LeafSet : h \in visitedNodeHashes}
      /\ restored.visitedLeafHashes = visitedLeafHashes
      /\ restored.remainingLineCount = remainingLineCount

\* C40: after every operation that changes the visited-leaf set (leaf
\* completion, restart, session rebuild), remainingLineCount equals the number
\* of leaves of the tree index that are not in the visited-leaf set, and it is
\* 0 exactly when isCompleted is true or the index has no leaves.
C40_RemainingCountsUnvisited ==
  LET order == treeIndex.leafHashesInOrder
      unvisited == {i \in 1..Len(order) : order[i] \notin visitedLeafHashes}
  IN  /\ remainingLineCount = Cardinality(unvisited)
      /\ (remainingLineCount = 0) <=> (isCompleted \/ Len(order) = 0)

C40_Witness ==
  /\ lastAdvance # "none"
  /\ visitedLeafHashes # {}
  /\ remainingLineCount > 0
  /\ remainingLineCount < Len(treeIndex.leafHashesInOrder)

====
